---------------------------- MODULE Spec2Model ----------------------------
(***************************************************************************)
(* A model of the skills manager: source-string parsing (git.rs), snapshot *)
(* acquisition (git.rs), skill discovery (skill.rs) and the add / install  *)
(* / update / remove commands (cli/*.rs) over the Declared store           *)
(* (skills.json), the Resolved store (skills-lock.json) and the per-agent  *)
(* install directories.                                                    *)
(*                                                                         *)
(* Strings are sequences of tokens.  A token is either a one-character     *)
(* separator ("/", ":", ".", "-") or a run of characters that contains no  *)
(* separator the program looks at ("github.com", "tree", "o", "skills").   *)
(***************************************************************************)
EXTENDS Integers, Sequences, FiniteSets, TLC

\* Option<T>: None, or Some(v) with the value Val(o).
None == <<>>
Some(v) == <<v>>
Val(o) == o[1]

(***************************************************************************)
(* Strings                                                                 *)
(***************************************************************************)

\* The tokens whose first character is '.' (str::starts_with('.')).
DotTokens == {".", ".git", ".curated", ".experimental", ".system", ".agent",
              ".agents", ".claude", ".codex", ".cursor", ".github", ".goose",
              ".kilocode", ".kiro", ".opencode", ".roo", ".trae", ".windsurf",
              ".hidden"}

Contains(s, t) == \E i \in 1..Len(s) : s[i] = t

StartsWith(s, toks) == Len(s) >= 1 /\ s[1] \in toks

(***************************************************************************)
(* Regular expressions (the regex crate: leftmost match, alternatives      *)
(* tried in preference order).  A pattern is a sequence of elements:       *)
(*   Lit(t)          the token t                                           *)
(*   Plus(c, g, n)   one or more tokens outside the set c, greedy when g,  *)
(*                   lazy otherwise, captured as group n                   *)
(*   Opt(p)          the sub-pattern p, or nothing (p preferred)           *)
(*   Bol, Eol        ^ and $                                               *)
(***************************************************************************)
Lit(t) == [k |-> "lit", t |-> t]
Plus(c, g, n) == [k |-> "plus", c |-> c, g |-> g, n |-> n]
Opt(p) == [k |-> "opt", p |-> p]
Bol == [k |-> "bol"]
Eol == [k |-> "eol"]

NotSlash == {"/"}
NotColon == {":"}
AnyChar == {}

NoCaps == [n \in 1..4 |-> None]

RECURSIVE RunLen(_, _, _)
\* Length of the longest run of tokens outside c starting at s[i].
RunLen(s, i, c) ==
    IF i > Len(s) \/ s[i] \in c THEN 0 ELSE 1 + RunLen(s, i + 1, c)

RECURSIVE MatchAt(_, _, _, _)
RECURSIVE TryLen(_, _, _, _, _, _, _)
\* The preferred match of pattern p against s from position i: Some(the
\* capture groups), or None.
MatchAt(p, s, i, caps) ==
    IF p = <<>> THEN Some(caps)
    ELSE LET e == Head(p)
             rest == Tail(p)
         IN CASE e.k = "lit" ->
                   IF i <= Len(s) /\ s[i] = e.t
                   THEN MatchAt(rest, s, i + 1, caps) ELSE None
              [] e.k = "bol" ->
                   IF i = 1 THEN MatchAt(rest, s, i, caps) ELSE None
              [] e.k = "eol" ->
                   IF i = Len(s) + 1 THEN MatchAt(rest, s, i, caps) ELSE None
              [] e.k = "opt" ->
                   LET r == MatchAt(e.p \o rest, s, i, caps)
                   IN IF r # None THEN r ELSE MatchAt(rest, s, i, caps)
              [] e.k = "plus" ->
                   LET m == RunLen(s, i, e.c)
                   IN TryLen(e, rest, s, i, caps, IF e.g THEN m ELSE 1, m)

TryLen(e, rest, s, i, caps, len, m) ==
    IF len < 1 \/ len > m THEN None
    ELSE LET r == MatchAt(rest, s, i + len,
                          [caps EXCEPT ![e.n] = Some(SubSeq(s, i, i + len - 1))])
         IN IF r # None THEN r
            ELSE TryLen(e, rest, s, i, caps,
                        IF e.g THEN len - 1 ELSE len + 1, m)

RECURSIVE SearchFrom(_, _, _)
SearchFrom(p, s, i) ==
    IF i > Len(s) + 1 THEN None
    ELSE LET r == MatchAt(p, s, i, NoCaps)
         IN IF r # None THEN r ELSE SearchFrom(p, s, i + 1)

\* Regex::captures: the leftmost match of p anywhere in s.
captures(p, s) == SearchFrom(p, s, 1)

(***************************************************************************)
(* GitSource (git.rs)                                                      *)
(***************************************************************************)
github_tree_path ==
    << Lit("github.com"), Lit("/"), Plus(NotSlash, TRUE, 1), Lit("/"),
       Plus(NotSlash, TRUE, 2), Lit("/"), Lit("tree"), Lit("/"),
       Plus(NotSlash, TRUE, 3), Lit("/"), Plus(AnyChar, TRUE, 4) >>

github_tree ==
    << Lit("github.com"), Lit("/"), Plus(NotSlash, TRUE, 1), Lit("/"),
       Plus(NotSlash, TRUE, 2), Lit("/"), Lit("tree"), Lit("/"),
       Plus(NotSlash, TRUE, 3), Eol >>

github_repo ==
    << Lit("github.com"), Lit("/"), Plus(NotSlash, TRUE, 1), Lit("/"),
       Plus(NotSlash, FALSE, 2), Opt(<<Lit(".git")>>), Eol >>

gitlab_tree_path ==
    << Lit("gitlab.com"), Lit("/"), Plus(NotSlash, TRUE, 1), Lit("/"),
       Plus(NotSlash, TRUE, 2), Lit("/"), Lit("-"), Lit("/"), Lit("tree"),
       Lit("/"), Plus(NotSlash, TRUE, 3), Lit("/"), Plus(AnyChar, TRUE, 4) >>

ssh_url ==
    << Lit("git@"), Plus(NotColon, TRUE, 1), Lit(":"),
       Plus(NotSlash, TRUE, 2), Lit("/"), Plus(NotSlash, FALSE, 3),
       Opt(<<Lit(".git")>>), Eol >>

\* The shorthand pattern with a subpath of one segment only.
shorthand_one_segment ==
    << Bol, Plus(NotSlash, TRUE, 1), Lit("/"), Plus(NotSlash, TRUE, 2),
       Opt(<<Lit("/"), Plus(NotSlash, TRUE, 3)>>), Eol >>

shorthand ==
    << Bol, Plus(NotSlash, TRUE, 1), Lit("/"), Plus(NotSlash, TRUE, 2),
       Opt(<<Lit("/"), Plus(AnyChar, TRUE, 3)>>), Eol >>

GitSource(url, owner, repo, ref, subpath) ==
    [url |-> url, owner |-> owner, repo |-> repo, ref_ |-> ref,
     subpath |-> subpath]

HttpsUrl(host, owner, repo) ==
    <<"https", ":", "/", "/", host, "/">> \o owner \o <<"/">> \o repo
        \o <<".git">>

\* parse whose shorthand rule has no guard on the input.
parse_unguarded(input) ==
    LET m1 == captures(github_tree_path, input)
        m2 == captures(github_tree, input)
        m3 == captures(github_repo, input)
        m4 == captures(gitlab_tree_path, input)
        m5 == captures(ssh_url, input)
        m6 == captures(shorthand, input)
        c1 == Val(m1)
        c2 == Val(m2)
        c3 == Val(m3)
        c4 == Val(m4)
        c5 == Val(m5)
        c6 == Val(m6)
    IN IF m1 # None
       THEN GitSource(HttpsUrl("github.com", Val(c1[1]), Val(c1[2])),
                      c1[1], c1[2], c1[3], c1[4])
       ELSE IF m2 # None
       THEN GitSource(HttpsUrl("github.com", Val(c2[1]), Val(c2[2])),
                      c2[1], c2[2], c2[3], None)
       ELSE IF m3 # None
       THEN GitSource(HttpsUrl("github.com", Val(c3[1]), Val(c3[2])),
                      c3[1], c3[2], None, None)
       ELSE IF m4 # None
       THEN GitSource(HttpsUrl("gitlab.com", Val(c4[1]), Val(c4[2])),
                      c4[1], c4[2], c4[3], c4[4])
       ELSE IF m5 # None
       THEN GitSource(<<"git@">> \o Val(c5[1]) \o <<":">> \o Val(c5[2])
                          \o <<"/">> \o Val(c5[3]) \o <<".git">>,
                      c5[2], c5[3], None, None)
       ELSE IF m6 # None
       THEN GitSource(HttpsUrl("github.com", Val(c6[1]), Val(c6[2])),
                      c6[1], c6[2], None, c6[3])
       ELSE GitSource(input, None, None, None, None)

\* parse that tries the shorthand rule before the URL rules.
parse_shorthand_first(input) ==
    LET m1 == captures(github_tree_path, input)
        m2 == captures(github_tree, input)
        m3 == captures(github_repo, input)
        m4 == captures(gitlab_tree_path, input)
        m5 == captures(ssh_url, input)
        m6 == captures(shorthand, input)
        c1 == Val(m1)
        c2 == Val(m2)
        c3 == Val(m3)
        c4 == Val(m4)
        c5 == Val(m5)
        c6 == Val(m6)
    IN IF m6 # None /\ ~Contains(input, ":")
          /\ ~StartsWith(input, DotTokens)
          /\ ~StartsWith(input, {"/"})
       THEN GitSource(HttpsUrl("github.com", Val(c6[1]), Val(c6[2])),
                      c6[1], c6[2], None, c6[3])
       ELSE IF m1 # None
       THEN GitSource(HttpsUrl("github.com", Val(c1[1]), Val(c1[2])),
                      c1[1], c1[2], c1[3], c1[4])
       ELSE IF m2 # None
       THEN GitSource(HttpsUrl("github.com", Val(c2[1]), Val(c2[2])),
                      c2[1], c2[2], c2[3], None)
       ELSE IF m3 # None
       THEN GitSource(HttpsUrl("github.com", Val(c3[1]), Val(c3[2])),
                      c3[1], c3[2], None, None)
       ELSE IF m4 # None
       THEN GitSource(HttpsUrl("gitlab.com", Val(c4[1]), Val(c4[2])),
                      c4[1], c4[2], c4[3], c4[4])
       ELSE IF m5 # None
       THEN GitSource(<<"git@">> \o Val(c5[1]) \o <<":">> \o Val(c5[2])
                          \o <<"/">> \o Val(c5[3]) \o <<".git">>,
                      c5[2], c5[3], None, None)
       ELSE GitSource(input, None, None, None, None)

\* GitSource::parse: the first matching rule decides.  m[n] below is
\* capture group n of the match m.
parse(input) ==
    LET m1 == captures(github_tree_path, input)
        m2 == captures(github_tree, input)
        m3 == captures(github_repo, input)
        m4 == captures(gitlab_tree_path, input)
        m5 == captures(ssh_url, input)
        m6 == captures(shorthand, input)
        c1 == Val(m1)
        c2 == Val(m2)
        c3 == Val(m3)
        c4 == Val(m4)
        c5 == Val(m5)
        c6 == Val(m6)
    IN IF m1 # None
       THEN GitSource(HttpsUrl("github.com", Val(c1[1]), Val(c1[2])),
                      c1[1], c1[2], c1[3], c1[4])
       ELSE IF m2 # None
       THEN GitSource(HttpsUrl("github.com", Val(c2[1]), Val(c2[2])),
                      c2[1], c2[2], c2[3], None)
       ELSE IF m3 # None
       THEN GitSource(HttpsUrl("github.com", Val(c3[1]), Val(c3[2])),
                      c3[1], c3[2], None, None)
       ELSE IF m4 # None
       THEN GitSource(HttpsUrl("gitlab.com", Val(c4[1]), Val(c4[2])),
                      c4[1], c4[2], c4[3], c4[4])
       ELSE IF m5 # None
       THEN GitSource(<<"git@">> \o Val(c5[1]) \o <<":">> \o Val(c5[2])
                          \o <<"/">> \o Val(c5[3]) \o <<".git">>,
                      c5[2], c5[3], None, None)
       ELSE IF m6 # None /\ ~Contains(input, ":")
                  /\ ~StartsWith(input, DotTokens)
                  /\ ~StartsWith(input, {"/"})
       THEN GitSource(HttpsUrl("github.com", Val(c6[1]), Val(c6[2])),
                      c6[1], c6[2], None, c6[3])
       ELSE GitSource(input, None, None, None, None)

\* GitSource::canonical
canonical(src) ==
    IF src.owner # None /\ src.repo # None
    THEN Val(src.owner) \o <<"/">> \o Val(src.repo)
    ELSE src.url

(***************************************************************************)
(* Results of fallible operations (anyhow::Result)                         *)
(***************************************************************************)
Ok(v) == [ok |-> TRUE, v |-> v]
Err == [ok |-> FALSE]

(***************************************************************************)
(* Paths.  A path string is a token sequence ("skills", "/", "x"); a       *)
(* directory of a tree is the sequence of its segments from the root.      *)
(***************************************************************************)
RECURSIVE Segs(_)
\* Path::join(p) onto the snapshot root: the components of p.
Segs(p) ==
    IF p = <<>> THEN <<>>
    ELSE IF Head(p) = "/" THEN Segs(Tail(p))
    ELSE <<Head(p)>> \o Segs(Tail(p))

RECURSIVE JoinSlash(_)
\* Path::to_string_lossy of a path relative to the snapshot root.
JoinSlash(d) ==
    IF d = <<>> THEN <<>>
    ELSE IF Len(d) = 1 THEN d
    ELSE <<Head(d), "/">> \o JoinSlash(Tail(d))

(***************************************************************************)
(* Skill discovery (skill.rs).  A tree is the sequence of its directories  *)
(* in the order read_dir yields them; a directory is                       *)
(*   [path, manifest, files]                                               *)
(* where manifest is None (no SKILL.md) or the content of SKILL.md         *)
(*   [opens, closes, yaml_ok, name, description]  (name, description: an   *)
(*   Option, None when the key is missing from the frontmatter)            *)
(* and files are the other files of the directory, [f, c] = name, content. *)
(***************************************************************************)
SKIP_DIRS == {"node_modules", ".git", "dist", "build", "__pycache__", "target"}

SEARCH_DIRS ==
    << <<"skills">>, <<"skills", ".curated">>, <<"skills", ".experimental">>,
       <<"skills", ".system">>, <<".agent", "skills">>,
       <<".agents", "skills">>, <<".claude", "skills">>,
       <<".codex", "skills">>, <<".cursor", "skills">>,
       <<".github", "skills">>, <<".goose", "skills">>,
       <<".kilocode", "skills">>, <<".kiro", "skills">>,
       <<".opencode", "skills">>, <<".roo", "skills">>,
       <<".trae", "skills">>, <<".windsurf", "skills">> >>

max_depth == 5

Exists(tree, d) == d = <<>> \/ \E i \in 1..Len(tree) : tree[i].path = d

DirAt(tree, d) == tree[CHOOSE i \in 1..Len(tree) : tree[i].path = d]

\* read_dir(d) restricted to directories, in enumeration order.
Children(tree, d) ==
    LET IsChild(e) == Len(e.path) = Len(d) + 1
                      /\ SubSeq(e.path, 1, Len(d)) = d
    IN SelectSeq(tree, IsChild)

\* parse_frontmatter: the metadata of a SKILL.md, or an error.
parse_frontmatter(content) ==
    IF ~content.opens THEN Err
    ELSE IF ~content.closes THEN Err
    ELSE IF ~content.yaml_ok \/ content.name = None
            \/ content.description = None THEN Err
    ELSE IF Val(content.name) = "" THEN Err
    ELSE IF Val(content.description) = "" THEN Err
    ELSE Ok([name |-> Val(content.name),
             description |-> Val(content.description)])

\* try_parse_skill that passes over a SKILL.md it cannot validate.
try_parse_skill_skipping(tree, dir) ==
    IF ~(\E i \in 1..Len(tree) : tree[i].path = dir) THEN Ok(None)
    ELSE IF DirAt(tree, dir).manifest = None THEN Ok(None)
    ELSE LET m == parse_frontmatter(Val(DirAt(tree, dir).manifest))
         IN IF ~m.ok THEN Ok(None)
            ELSE Ok(Some([metadata |-> m.v, path |-> dir,
                          relative_path |-> JoinSlash(dir)]))

\* try_parse_skill: Ok(None) without SKILL.md, Ok(skill), or an error.
try_parse_skill(tree, dir) ==
    IF ~(\E i \in 1..Len(tree) : tree[i].path = dir) THEN Ok(None)
    ELSE IF DirAt(tree, dir).manifest = None THEN Ok(None)
    ELSE LET m == parse_frontmatter(Val(DirAt(tree, dir).manifest))
         IN IF ~m.ok THEN Err
            ELSE Ok(Some([metadata |-> m.v, path |-> dir,
                          relative_path |-> JoinSlash(dir)]))

\* The accumulator of a scan: the skills found, the names seen, and
\* whether a `?` has propagated an error.
Acc0 == [err |-> FALSE, skills |-> <<>>, seen |-> {}]

\* Accept that lets a later skill of a seen name replace the earlier one.
AcceptLatest(acc, skill) ==
    LET Other(k) == k.metadata.name # skill.metadata.name
    IN [acc EXCEPT !.seen = @ \cup {skill.metadata.name},
                   !.skills = Append(SelectSeq(@, Other), skill)]

Accept(acc, skill) ==
    IF skill.metadata.name \in acc.seen THEN acc
    ELSE [acc EXCEPT !.seen = @ \cup {skill.metadata.name},
                     !.skills = Append(@, skill)]

RECURSIVE ScanEntries(_, _, _)
\* The loop of find_skills_in_dir over the entries es.
ScanEntries(tree, es, acc) ==
    IF es = <<>> \/ acc.err THEN acc
    ELSE LET r == try_parse_skill(tree, Head(es).path)
         IN IF ~r.ok THEN [acc EXCEPT !.err = TRUE]
            ELSE ScanEntries(tree, Tail(es),
                             IF r.v = None THEN acc ELSE Accept(acc, Val(r.v)))

find_skills_in_dir(tree, dir, acc) == ScanEntries(tree, Children(tree, dir), acc)

RECURSIVE find_skills_recursive(_, _, _, _)
RECURSIVE RecurseEntries(_, _, _, _)
\* find_skills_recursive that returns once depth reaches max_depth.
find_skills_recursive_short(tree, dir, acc, depth) ==
    IF depth >= max_depth THEN acc
    ELSE LET r == try_parse_skill(tree, dir)
         IN IF ~r.ok THEN [acc EXCEPT !.err = TRUE]
            ELSE IF r.v # None THEN Accept(acc, Val(r.v))
            ELSE IF ~Exists(tree, dir) THEN acc
            ELSE RecurseEntries(tree, Children(tree, dir), acc, depth)

find_skills_recursive(tree, dir, acc, depth) ==
    IF depth > max_depth THEN acc
    ELSE LET r == try_parse_skill(tree, dir)
         IN IF ~r.ok THEN [acc EXCEPT !.err = TRUE]
            ELSE IF r.v # None THEN Accept(acc, Val(r.v))
            ELSE IF ~Exists(tree, dir) THEN acc
            ELSE RecurseEntries(tree, Children(tree, dir), acc, depth)

RecurseEntries(tree, es, acc, depth) ==
    IF es = <<>> \/ acc.err THEN acc
    ELSE LET name == Head(es).path[Len(Head(es).path)]
         IN RecurseEntries(tree, Tail(es),
                IF name \notin SKIP_DIRS /\ name \notin DotTokens
                THEN find_skills_recursive(tree, Head(es).path, acc, depth + 1)
                ELSE acc,
                depth)

RECURSIVE ScanSearchDirs(_, _, _, _)
\* The loop of discover_skills over SEARCH_DIRS, from index i.
ScanSearchDirs(tree, search_path, i, acc) ==
    IF i > Len(SEARCH_DIRS) \/ acc.err THEN acc
    ELSE ScanSearchDirs(tree, search_path, i + 1,
            IF Exists(tree, search_path \o SEARCH_DIRS[i])
            THEN find_skills_in_dir(tree, search_path \o SEARCH_DIRS[i], acc)
            ELSE acc)

\* discover_skills that runs the recursive search whatever the priority
\* directories gave.
discover_skills_always_recursive(tree, subpath) ==
    LET search_path == IF subpath = None THEN <<>> ELSE Segs(Val(subpath))
        self == try_parse_skill(tree, search_path)
    IN IF ~self.ok THEN Err
       ELSE IF self.v # None THEN Ok(<<Val(self.v)>>)
       ELSE LET a1 == ScanSearchDirs(tree, search_path, 1, Acc0)
                a2 == IF a1.err THEN a1
                      ELSE find_skills_recursive(tree, search_path, a1, 0)
            IN IF a2.err THEN Err ELSE Ok(a2.skills)

\* discover_skills that goes on scanning below a search path that is
\* itself a skill.
discover_skills_scanning_on(tree, subpath) ==
    LET search_path == IF subpath = None THEN <<>> ELSE Segs(Val(subpath))
        self == try_parse_skill(tree, search_path)
    IN IF ~self.ok THEN Err
       ELSE LET a0 == IF self.v # None THEN Accept(Acc0, Val(self.v))
                      ELSE Acc0
                a1 == ScanSearchDirs(tree, search_path, 1, a0)
                a2 == IF a1.err \/ a1.skills # a0.skills THEN a1
                      ELSE RecurseEntries(tree, Children(tree, search_path),
                                          a1, 0)
            IN IF a2.err THEN Err ELSE Ok(a2.skills)

\* discover_skills(base_path, subpath): Ok(sequence of skills) or an error.
discover_skills(tree, subpath) ==
    LET search_path == IF subpath = None THEN <<>> ELSE Segs(Val(subpath))
        self == try_parse_skill(tree, search_path)
    IN IF ~self.ok THEN Err
       ELSE IF self.v # None THEN Ok(<<Val(self.v)>>)
       ELSE LET a1 == ScanSearchDirs(tree, search_path, 1, Acc0)
                a2 == IF a1.err \/ a1.skills # <<>> THEN a1
                      ELSE find_skills_recursive(tree, search_path, a1, 0)
            IN IF a2.err THEN Err ELSE Ok(a2.skills)

(***************************************************************************)
(* The upstream repositories.  Two remotes exist, A = github.com/o/a and   *)
(* B = github.com/o/b.  The default branch of A is at its n-th commit, n   *)
(* in 1..MaxHead; A also has a branch "dev" fixed at commit 0; B stays at  *)
(* its first commit.  A commit id (sha) is <<repo, n>>.                    *)
(***************************************************************************)
MaxHead == 2

Repos == {"A", "B"}

Names == {"x", "y"}

UrlA == HttpsUrl("github.com", <<"o">>, <<"a">>)
UrlB == HttpsUrl("github.com", <<"o">>, <<"b">>)

RepoOf(url) ==
    IF url = UrlA THEN Some("A") ELSE IF url = UrlB THEN Some("B") ELSE None

Odd(n) == n % 2 = 1

Stamp(repo, n, what) == <<what, repo, ToString(n)>>

SkillMd(name, description) ==
    Some([opens |-> TRUE, closes |-> TRUE, yaml_ok |-> TRUE,
          name |-> Some(name), description |-> Some(description)])

\* A SKILL.md whose frontmatter lacks the description key.
BadSkillMd(name) ==
    Some([opens |-> TRUE, closes |-> TRUE, yaml_ok |-> TRUE,
          name |-> Some(name), description |-> None])

Dir(path, manifest, files) ==
    [path |-> path, manifest |-> manifest, files |-> files]

\* The checked-out tree of a commit.
\*   A: skills/x is skill "x"; its notes.txt exists in odd commits only.
\*      skills/y is skill "y" in odd commits and is absent in even ones.
\*      skills/z holds an invalid SKILL.md in the commits 2, 6, 10, ...
\*   B: skills/x is skill "x".
TreeOf(sha) ==
    LET repo == sha[1]
        n == sha[2]
    IN IF repo = "A"
       THEN << Dir(<<"skills">>, None, {}),
               Dir(<<"skills", "x">>, SkillMd("x", Stamp(repo, n, "x")),
                   IF Odd(n) THEN {[f |-> <<"notes.txt">>,
                                    c |-> Stamp(repo, n, "notes")]}
                   ELSE {}) >>
            \o (IF Odd(n)
                THEN << Dir(<<"skills", "y">>,
                            SkillMd("y", Stamp(repo, n, "y")), {}) >>
                ELSE << >>)
            \o (IF n % 4 = 2
                THEN << Dir(<<"skills", "z">>, BadSkillMd("z"), {}) >>
                ELSE << >>)
       ELSE << Dir(<<"skills">>, None, {}),
               Dir(<<"skills", "x">>, SkillMd("x", Stamp(repo, n, "x")),
                   {}) >>

\* The commit a checkout of `ref_` (None: the default branch) yields.
BranchHead(heads, repo, ref) ==
    IF ref = None THEN Some(<<repo, heads[repo]>>)
    ELSE IF repo = "A" /\ Val(ref) = <<"dev">> THEN Some(<<"A", 0>>)
    ELSE None

\* ClonedRepo::clone: a snapshot of source.url at source.ref_, or an error
\* (net_ok = FALSE: the fetch fails; unknown remote; missing ref).
clone(source, heads, net_ok) ==
    IF ~net_ok \/ RepoOf(source.url) = None THEN Err
    ELSE LET h == BranchHead(heads, Val(RepoOf(source.url)), source.ref_)
         IN IF h = None THEN Err ELSE Ok([sha |-> Val(h)])

\* resolve_sha: the commit id of source's ref.  `api` is what the hosting
\* API call does: "ok", "status" (non-success status), "nosha" (no sha
\* field), "send" (transport error) or "json" (unparsable body).
resolve_sha(source, heads, api, net_ok) ==
    IF source.owner # None /\ source.repo # None
       /\ Contains(source.url, "github.com")
       /\ api \in {"send", "json"}
    THEN Err
    ELSE IF source.owner # None /\ source.repo # None
            /\ Contains(source.url, "github.com")
            /\ api = "ok" /\ RepoOf(source.url) # None
            /\ BranchHead(heads, Val(RepoOf(source.url)), source.ref_) # None
    THEN Ok(Val(BranchHead(heads, Val(RepoOf(source.url)), source.ref_)))
    ELSE LET cloned == clone(source, heads, net_ok)
         IN IF cloned.ok THEN Ok(cloned.v.sha) ELSE Err

(***************************************************************************)
(* Install targets (install.rs).  A directory <target>/<name>/ is None     *)
(* (absent) or Some(the set of its files, [f, c] = relative path, content).*)
(***************************************************************************)
AGENTS == << <<"claude-code", ".claude/skills">>,
             <<"opencode", ".opencode/skills">>,
             <<"cursor", ".cursor/skills">>,
             <<"codex", ".codex/skills">> >>

Targets == 1..Len(AGENTS)

IsUnder(d, p) == Len(p) >= Len(d) /\ SubSeq(p, 1, Len(d)) = d

\* Every file below directory `src` of the tree, by its path relative to
\* src; the content of a SKILL.md is identified by its description.
FilesUnder(tree, src) ==
    UNION { LET e == tree[i]
                rel == SubSeq(e.path, Len(src) + 1, Len(e.path))
            IN {[f |-> rel \o g.f, c |-> g.c] : g \in e.files}
                \cup (IF e.manifest = None THEN {}
                      ELSE {[f |-> rel \o <<"SKILL.md">>,
                             c |-> IF Val(e.manifest).description = None
                                   THEN <<"invalid">>
                                   ELSE Val(Val(e.manifest).description)]})
          : i \in {k \in 1..Len(tree) : IsUnder(src, tree[k].path)} }

\* A variant of copy_dir_recursive that, like `cp -r`, copies src INTO a
\* dst that already exists, as <dst>/<last component of src>/.
copy_dir_into_existing(tree, src, dst) ==
    LET new == FilesUnder(tree, src)
    IN IF dst = None THEN Some(new)
       ELSE Some(Val(dst)
                 \cup {[f |-> <<src[Len(src)]>> \o g.f, c |-> g.c] : g \in new})

\* copy_dir_recursive(src, dst): dst is created if missing and every file
\* of src is written over it; files already in dst are left alone.
copy_dir_recursive(tree, src, dst) ==
    LET new == FilesUnder(tree, src)
        old == IF dst = None THEN {} ELSE Val(dst)
    IN Some(new \cup {e \in old : ~\E g \in new : g.f = e.f})

\* A variant of install_skill_to_agents that stops after the first target.
install_skill_to_first_agent(inst, name, tree, src, upto) ==
    [t \in Targets |->
        IF t <= upto /\ t = 1
        THEN [inst[t] EXCEPT ![name] = copy_dir_recursive(tree, src, @)]
        ELSE inst[t]]

\* install_skill_to_agents: the copy into the first `upto` targets (all of
\* them unless a copy fails).
install_skill_to_agents(inst, name, tree, src, upto) ==
    [t \in Targets |->
        IF t <= upto
        THEN [inst[t] EXCEPT ![name] = copy_dir_recursive(tree, src, @)]
        ELSE inst[t]]

(***************************************************************************)
(* The stores (config.rs)                                                  *)
(***************************************************************************)
SkillSpec(name, source, ref, path) ==
    [name |-> name, source |-> source, ref_ |-> ref, path |-> path]

Marketplace(name, source, ref, enabled) ==
    [name |-> name, source |-> source, ref_ |-> ref, enabled |-> enabled]

LockedSkill(name, source, sha, path, description, marketplace) ==
    [name |-> name, source |-> source, sha |-> sha, path |-> path,
     description |-> description, marketplace |-> marketplace]

\* SkillsConfig::default and SkillsLock::default.  The lock's marketplaces
\* map is never written by any command and is left out.
DefaultConfig == [marketplaces |-> <<>>, skills |-> <<>>]
DefaultLock == [n \in Names |-> None]

HasSkill(skills, name) == \E i \in 1..Len(skills) : skills[i].name = name

\* Iterator::find over discovered skills by manifest name.
find(skills, name) ==
    IF \E i \in 1..Len(skills) : skills[i].metadata.name = name
    THEN Some(skills[CHOOSE i \in 1..Len(skills) :
                        /\ skills[i].metadata.name = name
                        /\ \A k \in 1..(i - 1) :
                              skills[k].metadata.name # name])
    ELSE None

(***************************************************************************)
(* State                                                                   *)
(***************************************************************************)
VARIABLES
    head,         \* head[r]: the commit number of the default branch of r
    skills_json,  \* the persisted Declared store
    skills_lock,  \* the persisted Resolved store (its skills map)
    installed,    \* installed[t][n]: directory <AGENTS[t]>/<n>/
    run,          \* the command in progress and its local variables
    last,         \* the last command that ended, and how
    cmds,         \* commands and user edits started so far
    faults,       \* environment failures so far
    call,         \* a library function applied on its own: its input and
                  \* its result (NoCall while the commands run)
    procs,        \* procs[p]: the invocation p of two that run at the same
                  \* time in one project directory, and its local variables
    app           \* the interactive front-end's App (NoApp while it is
                  \* not running)

vars == <<head, skills_json, skills_lock, installed, run, last, cmds, faults,
          call, procs, app>>

\* The most commands (and edits of skills.json by the user) plus
\* environment failures (network, file system) in one behaviour.
MaxCmds == 4

NoSource == GitSource(<<>>, None, None, None, None)

Idle == [cmd |-> "idle", pc |-> "idle", arg |-> None,
         config |-> DefaultConfig, lock |-> DefaultLock,
         i |-> 0, j |-> 0, git_source |-> NoSource,
         cloned |-> None, new_sha |-> None]

NoLast == [cmd |-> "none", arg |-> None, ok |-> TRUE]

NoCall == [fn |-> "none", in |-> None, out |-> None]

Procs == {1, 2}

NoProcs ==
    [p \in Procs |-> [pc |-> "idle", cmd |-> "none", name |-> None,
                      config |-> DefaultConfig, lock |-> DefaultLock,
                      runs |-> 0]]

\* The front-end is not running.  `busy` is the command the event loop
\* awaits ("none": it waits for a key) and `mark` the value of cmds when
\* that command was asked for.  cwd never changes and status is only
\* displayed: both are left out.
NoApp == [state |-> "Off", config |-> DefaultConfig, lock |-> DefaultLock,
          input |-> <<>>, selected_skill |-> 0, selected_marketplace |-> 0,
          selected_marketplace_skill |-> 0, current_marketplace |-> None,
          marketplace_available_skills |-> <<>>, busy |-> "none",
          mark |-> 0]

Init ==
    /\ head = [r \in Repos |-> 1]
    /\ skills_json = DefaultConfig
    /\ skills_lock = DefaultLock
    /\ installed = [t \in Targets |-> [n \in Names |-> None]]
    /\ run = Idle
    /\ last = NoLast
    /\ cmds = 0
    /\ faults = 0
    /\ call = NoCall
    /\ procs = NoProcs
    /\ app = NoApp

\* A failure the environment may inject while the budget lasts.
MayFail == cmds + faults < MaxCmds

\* A command starts.
Start ==
    /\ run.pc = "idle"
    /\ cmds + faults < MaxCmds
    /\ cmds' = cmds + 1

\* A variant of End that leaves the snapshot directory behind.
EndKeepingSnapshot(cmd, arg, ok) ==
    /\ run' = [Idle EXCEPT !.cloned = run.cloned]
    /\ last' = [cmd |-> cmd, arg |-> arg, ok |-> ok]

\* The command ends: its locals and its snapshot go out of scope.
End(cmd, arg, ok) ==
    /\ run' = Idle
    /\ last' = [cmd |-> cmd, arg |-> arg, ok |-> ok]

\* discover_skills on the snapshot of commit sha.
discover(sha, subpath) == discover_skills(TreeOf(sha), subpath)

Least(S) == CHOOSE m \in S : \A o \in S : m <= o

Fault(failed) == faults' = faults + (IF failed THEN 1 ELSE 0)

(***************************************************************************)
(* add (cli/add.rs)                                                        *)
(***************************************************************************)
\* The command lines of add: <<source, skill name>>.
AddInputs == { << <<"o", "/", "a">>, Some("x") >>,
               << <<"o", "/", "a">>, Some("y") >>,
               << <<"o", "/", "a">>, None >>,
               << <<"o", "/", "b">>, None >>,
               << <<"o", "/", "b">>, Some("y") >> }

\* The names given to update.
UpdateInputs == {None, Some("x")}

\* A variant of add_spec that pushes the entry without the retain.
add_spec_push(config, skill, git_source) ==
    [config EXCEPT !.skills =
        Append(@, SkillSpec(skill.metadata.name, canonical(git_source),
                            git_source.ref_,
                            IF skill.relative_path = <<>> THEN None
                            ELSE Some(skill.relative_path)))]

\* add_spec that never records where in the repository the skill lies.
add_spec_pathless(config, skill, git_source) ==
    LET spec == SkillSpec(skill.metadata.name, canonical(git_source),
                          git_source.ref_, None)
        Other(e) == e.name # spec.name
    IN [config EXCEPT !.skills =
            Append(IF HasSkill(@, spec.name) THEN SelectSeq(@, Other) ELSE @,
                   spec)]

\* The entry add writes for a selected skill, replacing a same-named one.
add_spec(config, skill, git_source) ==
    LET spec == SkillSpec(skill.metadata.name, canonical(git_source),
                          git_source.ref_,
                          IF skill.relative_path = <<>> THEN None
                          ELSE Some(skill.relative_path))
        Other(e) == e.name # spec.name
    IN [config EXCEPT !.skills =
            Append(IF HasSkill(@, spec.name) THEN SelectSeq(@, Other) ELSE @,
                   spec)]

RECURSIVE add_specs(_, _, _)
\* The loop over the selected skills.
add_specs(config, selected, git_source) ==
    IF selected = <<>> THEN config
    ELSE add_specs(add_spec(config, Head(selected), git_source),
                   Tail(selected), git_source)

\* The selection: Ok(skills to add), Ok(<<>>) with `multiple` when several
\* skills were found and no name was given, or an error.
select_skills(skills, skill_name) ==
    LET Named(k) == k.metadata.name = Val(skill_name)
    IN IF skill_name # None THEN SelectSeq(skills, Named)
       ELSE IF Len(skills) = 1 THEN skills
       ELSE <<>>

\* add, up to the clone.
AddClone(source, skill_name, net_ok) ==
    /\ Start
    /\ net_ok \/ MayFail
    /\ Fault(~net_ok)
    /\ LET git_source == parse(source)
           cloned == clone(git_source, head, net_ok)
       IN IF ~cloned.ok THEN End("add", skill_name, FALSE)
          ELSE /\ run' = [Idle EXCEPT !.cmd = "add", !.pc = "add_cloned",
                                      !.arg = skill_name,
                                      !.git_source = git_source,
                                      !.cloned = Some(cloned.v)]
               /\ UNCHANGED last
    /\ UNCHANGED <<head, skills_json, skills_lock, installed>>
    /\ UNCHANGED <<call, procs, app>>

\* AddFinish that, given no name, adds every discovered skill.
AddFinishAll(io) ==
    /\ run.pc = "add_cloned"
    /\ io = "ok" \/ MayFail
    /\ LET skills == discover(Val(run.cloned).sha, run.git_source.subpath)
           selected == IF run.arg = None THEN skills.v
                       ELSE select_skills(skills.v, run.arg)
       IN IF ~skills.ok \/ skills.v = <<>> \/ selected = <<>>
          THEN /\ io = "ok"
               /\ End("add", run.arg, FALSE)
               /\ UNCHANGED <<skills_json, faults>>
          ELSE /\ Fault(io # "ok")
               /\ End("add", run.arg, io = "ok")
               /\ skills_json' =
                      IF io = "ok"
                      THEN add_specs(skills_json, selected, run.git_source)
                      ELSE skills_json
    /\ UNCHANGED <<head, skills_lock, installed, cmds>>
    /\ UNCHANGED <<call, procs, app>>

\* A variant of AddFinish that also drops the lock entry of every name it
\* declares.
AddFinishUnlocking(io) ==
    /\ run.pc = "add_cloned"
    /\ io = "ok" \/ MayFail
    /\ LET skills == discover(Val(run.cloned).sha, run.git_source.subpath)
           selected == select_skills(skills.v, run.arg)
       IN IF ~skills.ok \/ skills.v = <<>>
          THEN /\ io = "ok"
               /\ End("add", run.arg, FALSE)
               /\ UNCHANGED <<skills_json, skills_lock, faults>>
          ELSE IF run.arg = None /\ Len(skills.v) > 1
          THEN /\ io = "ok"
               /\ End("add", run.arg, TRUE)
               /\ UNCHANGED <<skills_json, skills_lock, faults>>
          ELSE IF selected = <<>>
          THEN /\ io = "ok"
               /\ End("add", run.arg, FALSE)
               /\ UNCHANGED <<skills_json, skills_lock, faults>>
          ELSE /\ Fault(io # "ok")
               /\ End("add", run.arg, io = "ok")
               /\ skills_json' =
                      IF io = "ok"
                      THEN add_specs(skills_json, selected, run.git_source)
                      ELSE skills_json
               /\ skills_lock' =
                      IF io = "ok"
                      THEN [n \in Names |->
                               IF \E k \in 1..Len(selected) :
                                     selected[k].metadata.name = n
                               THEN None ELSE skills_lock[n]]
                      ELSE skills_lock
    /\ UNCHANGED <<head, installed, cmds>>
    /\ UNCHANGED <<call, procs, app>>

\* add, from discovery to the save of skills.json.  io is "ok", or the
\* store operation that fails: "load" or "save".
AddFinish(io) ==
    /\ run.pc = "add_cloned"
    /\ io = "ok" \/ MayFail
    /\ LET skills == discover(Val(run.cloned).sha, run.git_source.subpath)
           selected == select_skills(skills.v, run.arg)
       IN IF ~skills.ok \/ skills.v = <<>>
          THEN /\ io = "ok"
               /\ End("add", run.arg, FALSE)
               /\ UNCHANGED <<skills_json, faults>>
          ELSE IF run.arg = None /\ Len(skills.v) > 1
          THEN /\ io = "ok"
               /\ End("add", run.arg, TRUE)
               /\ UNCHANGED <<skills_json, faults>>
          ELSE IF selected = <<>>
          THEN /\ io = "ok"
               /\ End("add", run.arg, FALSE)
               /\ UNCHANGED <<skills_json, faults>>
          ELSE /\ Fault(io # "ok")
               /\ End("add", run.arg, io = "ok")
               /\ skills_json' =
                      IF io = "ok"
                      THEN add_specs(skills_json, selected, run.git_source)
                      ELSE skills_json
    /\ UNCHANGED <<head, skills_lock, installed, cmds>>
    /\ UNCHANGED <<call, procs, app>>

(***************************************************************************)
(* install (cli/install.rs)                                                *)
(***************************************************************************)
\* The location install fetches a Declared skill from.
install_source(skill_spec, lock) ==
    IF lock[skill_spec.name] # None
    THEN parse(Val(lock[skill_spec.name]).source)
    ELSE parse(skill_spec.source)

\* Where the loops of install stand after the skills before index i.
InstallNextMkt(config, j) ==
    LET S == {k \in j..Len(config.marketplaces) :
                 config.marketplaces[k].enabled # <<>>}
    IN IF S = {} THEN [pc |-> "i_save", i |-> 0, j |-> 0]
       ELSE [pc |-> "i_mkt", i |-> 0, j |-> Least(S)]

InstallNext(config, i) ==
    IF i <= Len(config.skills) THEN [pc |-> "i_skill", i |-> i, j |-> 0]
    ELSE InstallNextMkt(config, 1)

\* A variant of At that leaves the snapshot of the finished entry in place.
AtKeepingSnapshot(r, pos) ==
    [r EXCEPT !.pc = pos.pc, !.i = pos.i, !.j = pos.j, !.new_sha = None]

At(r, pos) == [r EXCEPT !.pc = pos.pc, !.i = pos.i, !.j = pos.j,
                        !.cloned = None, !.new_sha = None]

\* install: the loads and the early return.
InstallStart(io) ==
    /\ Start
    /\ io = "ok" \/ MayFail
    /\ Fault(io # "ok")
    /\ IF io # "ok" THEN End("install", None, FALSE)
       ELSE IF skills_json.skills = <<>> /\ skills_json.marketplaces = <<>>
       THEN End("install", None, TRUE)
       ELSE /\ run' = At([Idle EXCEPT !.cmd = "install",
                                      !.config = skills_json,
                                      !.lock = skills_lock],
                         InstallNext(skills_json, 1))
            /\ UNCHANGED last
    /\ UNCHANGED <<head, skills_json, skills_lock, installed>>
    /\ UNCHANGED <<call, procs, app>>

\* install: the clone for Declared skill i.
InstallClone(net_ok) ==
    /\ run.pc = "i_skill"
    /\ net_ok \/ MayFail
    /\ Fault(~net_ok)
    /\ LET git_source == install_source(run.config.skills[run.i], run.lock)
           cloned == clone(git_source, head, net_ok)
       IN IF ~cloned.ok THEN End("install", None, FALSE)
          ELSE /\ run' = [run EXCEPT !.pc = "i_skill_cloned",
                                     !.git_source = git_source,
                                     !.cloned = Some(cloned.v)]
               /\ UNCHANGED last
    /\ UNCHANGED <<head, skills_json, skills_lock, installed, cmds>>
    /\ UNCHANGED <<call, procs, app>>

\* A variant of InstallCopy that skips a skill it cannot discover and goes
\* on with the next one.
InstallCopySkipping(upto) ==
    /\ run.pc = "i_skill_cloned"
    /\ upto = Len(AGENTS) \/ MayFail
    /\ LET skill_spec == run.config.skills[run.i]
           sha == Val(run.cloned).sha
           skills == discover(sha, skill_spec.path)
           skill == find(skills.v, skill_spec.name)
           locked_skill ==
               LockedSkill(Val(skill).metadata.name, run.git_source.url, sha,
                           Val(skill).relative_path,
                           Some(Val(skill).metadata.description), None)
       IN IF ~skills.ok \/ skill = None
          THEN /\ upto = Len(AGENTS)
               /\ run' = At(run, InstallNext(run.config, run.i + 1))
               /\ UNCHANGED <<installed, faults, last>>
          ELSE /\ Fault(upto < Len(AGENTS))
               /\ installed' =
                      install_skill_to_agents(installed, skill_spec.name,
                                              TreeOf(sha), Val(skill).path,
                                              upto)
               /\ IF upto < Len(AGENTS) THEN End("install", None, FALSE)
                  ELSE /\ run' = At([run EXCEPT
                                        !.lock[skill_spec.name] =
                                            Some(locked_skill)],
                                    InstallNext(run.config, run.i + 1))
                       /\ UNCHANGED last
    /\ UNCHANGED <<head, skills_json, skills_lock, cmds>>
    /\ UNCHANGED <<call, procs, app>>

\* install: discovery, the lock entry and the copies for Declared skill i.
\* upto < Len(AGENTS): the copy into target upto + 1 fails.
InstallCopy(upto) ==
    /\ run.pc = "i_skill_cloned"
    /\ upto = Len(AGENTS) \/ MayFail
    /\ LET skill_spec == run.config.skills[run.i]
           sha == Val(run.cloned).sha
           skills == discover(sha, skill_spec.path)
           skill == find(skills.v, skill_spec.name)
           locked_skill ==
               LockedSkill(Val(skill).metadata.name, run.git_source.url, sha,
                           Val(skill).relative_path,
                           Some(Val(skill).metadata.description), None)
       IN IF ~skills.ok \/ skill = None
          THEN /\ upto = Len(AGENTS)
               /\ End("install", None, FALSE)
               /\ UNCHANGED <<installed, faults>>
          ELSE /\ Fault(upto < Len(AGENTS))
               /\ installed' =
                      install_skill_to_agents(installed, skill_spec.name,
                                              TreeOf(sha), Val(skill).path,
                                              upto)
               /\ IF upto < Len(AGENTS) THEN End("install", None, FALSE)
                  ELSE /\ run' = At([run EXCEPT
                                        !.lock[skill_spec.name] =
                                            Some(locked_skill)],
                                    InstallNext(run.config, run.i + 1))
                       /\ UNCHANGED last
    /\ UNCHANGED <<head, skills_json, skills_lock, cmds>>
    /\ UNCHANGED <<call, procs, app>>

\* install: the one clone for marketplace j.
InstallMktClone(net_ok) ==
    /\ run.pc = "i_mkt"
    /\ net_ok \/ MayFail
    /\ Fault(~net_ok)
    /\ LET git_source == parse(run.config.marketplaces[run.j].source)
           cloned == clone(git_source, head, net_ok)
       IN IF ~cloned.ok THEN End("install", None, FALSE)
          ELSE /\ run' = [run EXCEPT !.pc = "i_mkt_cloned",
                                     !.git_source = git_source,
                                     !.cloned = Some(cloned.v)]
               /\ UNCHANGED last
    /\ UNCHANGED <<head, skills_json, skills_lock, installed, cmds>>
    /\ UNCHANGED <<call, procs, app>>

RECURSIVE install_enabled_unmarked(_, _, _, _, _, _, _, _)
\* install_enabled that records no marketplace in the lock entries.
install_enabled_unmarked(marketplace, k, skills, git_source, sha, st, fail_k, upto) ==
    IF k > Len(marketplace.enabled) \/ st.err THEN st
    ELSE LET skill_name == marketplace.enabled[k]
             skill == find(skills, skill_name)
             locked_skill ==
                 LockedSkill(Val(skill).metadata.name, git_source.url, sha,
                             Val(skill).relative_path,
                             Some(Val(skill).metadata.description), None)
         IN IF skill = None THEN [st EXCEPT !.err = TRUE]
            ELSE install_enabled_unmarked(marketplace, k + 1, skills,
                    git_source, sha,
                    [err |-> k = fail_k,
                     lock |-> [st.lock EXCEPT ![skill_name] =
                                                  Some(locked_skill)],
                     installed |->
                         install_skill_to_agents(st.installed, skill_name,
                             TreeOf(sha), Val(skill).path,
                             IF k = fail_k THEN upto ELSE Len(AGENTS))],
                    fail_k, upto)

RECURSIVE install_enabled(_, _, _, _, _, _, _, _)
\* The loop over the enabled names of a marketplace, from index k, on
\* st = [err, lock, installed].  The copy for name number fail_k (0: none)
\* fails after `upto` targets.
install_enabled(marketplace, k, skills, git_source, sha, st, fail_k, upto) ==
    IF k > Len(marketplace.enabled) \/ st.err THEN st
    ELSE LET skill_name == marketplace.enabled[k]
             skill == find(skills, skill_name)
             locked_skill ==
                 LockedSkill(Val(skill).metadata.name, git_source.url, sha,
                             Val(skill).relative_path,
                             Some(Val(skill).metadata.description),
                             Some(marketplace.name))
         IN IF skill = None THEN [st EXCEPT !.err = TRUE]
            ELSE install_enabled(marketplace, k + 1, skills, git_source, sha,
                    [err |-> k = fail_k,
                     lock |-> [st.lock EXCEPT ![skill_name] =
                                                  Some(locked_skill)],
                     installed |->
                         install_skill_to_agents(st.installed, skill_name,
                             TreeOf(sha), Val(skill).path,
                             IF k = fail_k THEN upto ELSE Len(AGENTS))],
                    fail_k, upto)

\* install: discovery, lock entries and copies for marketplace j.
InstallMktCopy(fail_k, upto) ==
    /\ run.pc = "i_mkt_cloned"
    /\ fail_k = 0 \/ (MayFail /\ upto < Len(AGENTS))
    /\ fail_k = 0 => upto = Len(AGENTS)
    /\ LET marketplace == run.config.marketplaces[run.j]
           sha == Val(run.cloned).sha
           skills == discover(sha, None)
           st == install_enabled(marketplace, 1, skills.v, run.git_source,
                                 sha,
                                 [err |-> FALSE, lock |-> run.lock,
                                  installed |-> installed],
                                 fail_k, upto)
       IN IF ~skills.ok
          THEN /\ fail_k = 0
               /\ End("install", None, FALSE)
               /\ UNCHANGED <<installed, faults>>
          ELSE /\ fail_k # 0 => st.installed # install_enabled(marketplace, 1,
                                    skills.v, run.git_source, sha,
                                    [err |-> FALSE, lock |-> run.lock,
                                     installed |-> installed], 0,
                                    Len(AGENTS)).installed
                                \/ st.err
               /\ Fault(fail_k # 0)
               /\ installed' = st.installed
               /\ IF st.err THEN End("install", None, FALSE)
                  ELSE /\ run' = At([run EXCEPT !.lock = st.lock],
                                    InstallNextMkt(run.config, run.j + 1))
                       /\ UNCHANGED last
    /\ UNCHANGED <<head, skills_json, skills_lock, cmds>>
    /\ UNCHANGED <<call, procs, app>>

\* install: lock.save.
InstallSave(io_ok) ==
    /\ run.pc = "i_save"
    /\ io_ok \/ MayFail
    /\ Fault(~io_ok)
    /\ skills_lock' = IF io_ok THEN run.lock ELSE skills_lock
    /\ End("install", None, io_ok)
    /\ UNCHANGED <<head, skills_json, installed, cmds>>
    /\ UNCHANGED <<call, procs, app>>

(***************************************************************************)
(* update (cli/update.rs)                                                  *)
(***************************************************************************)
ApiOutcomes == {"ok", "status", "nosha", "send", "json"}

Wanted(skill_name, name) == skill_name = None \/ name = Val(skill_name)

\* A variant of UpToDate that takes any existing lock entry as current.
UpToDateByPresence(lock, name, new_sha) == lock[name] # None

UpToDate(lock, name, new_sha) ==
    lock[name] # None /\ Val(lock[name]).sha = new_sha

\* Where the loops of update stand: before marketplace j, or at the save.
UpdateNextMkt(config, j) ==
    IF j <= Len(config.marketplaces)
    THEN [pc |-> "u_mkt", i |-> 0, j |-> j]
    ELSE [pc |-> "u_save", i |-> 0, j |-> 0]

\* Before the first Declared skill from index i on that the name selects.
UpdateNext(config, i, skill_name) ==
    LET S == {k \in i..Len(config.skills) :
                 Wanted(skill_name, config.skills[k].name)}
    IN IF S = {} THEN UpdateNextMkt(config, 1)
       ELSE [pc |-> "u_skill", i |-> Least(S), j |-> 0]

\* Before the first enabled name of marketplace j, from index k on, that
\* the name selects and whose lock entry is not at new_sha.
UpdateNextName(config, lock, j, k, skill_name, new_sha) ==
    LET enabled == config.marketplaces[j].enabled
        S == {m \in k..Len(enabled) :
                 /\ Wanted(skill_name, enabled[m])
                 /\ ~UpToDate(lock, enabled[m], new_sha)}
    IN IF S = {} THEN UpdateNextMkt(config, j + 1)
       ELSE [pc |-> "u_mkt_name", i |-> Least(S), j |-> j]

\* update: the loads and the early return.
UpdateStart(skill_name, io) ==
    /\ Start
    /\ io = "ok" \/ MayFail
    /\ Fault(io # "ok")
    /\ IF io # "ok" THEN End("update", skill_name, FALSE)
       ELSE IF skills_json.skills = <<>> /\ skills_json.marketplaces = <<>>
       THEN End("update", skill_name, TRUE)
       ELSE /\ run' = At([Idle EXCEPT !.cmd = "update", !.arg = skill_name,
                                      !.config = skills_json,
                                      !.lock = skills_lock],
                         UpdateNext(skills_json, 1, skill_name))
            /\ UNCHANGED last
    /\ UNCHANGED <<head, skills_json, skills_lock, installed>>
    /\ UNCHANGED <<call, procs, app>>

\* update: resolve_sha for Declared skill i and the comparison with the
\* lock entry.
UpdateResolve(api, net_ok) ==
    /\ run.pc = "u_skill"
    /\ (api = "ok" /\ net_ok) \/ MayFail
    /\ Fault(api # "ok" \/ ~net_ok)
    /\ LET skill_spec == run.config.skills[run.i]
           git_source == parse(skill_spec.source)
           new_sha == resolve_sha(git_source, head, api, net_ok)
       IN IF ~new_sha.ok THEN End("update", run.arg, FALSE)
          ELSE /\ UNCHANGED last
               /\ run' =
                    IF UpToDate(run.lock, skill_spec.name, new_sha.v)
                    THEN At(run, UpdateNext(run.config, run.i + 1, run.arg))
                    ELSE [run EXCEPT !.pc = "u_skill_clone",
                                     !.git_source = git_source,
                                     !.new_sha = Some(new_sha.v)]
    /\ UNCHANGED <<head, skills_json, skills_lock, installed, cmds>>
    /\ UNCHANGED <<call, procs, app>>

\* update: the clone for Declared skill i.
UpdateClone(net_ok) ==
    /\ run.pc = "u_skill_clone"
    /\ net_ok \/ MayFail
    /\ Fault(~net_ok)
    /\ LET cloned == clone(run.git_source, head, net_ok)
       IN IF ~cloned.ok THEN End("update", run.arg, FALSE)
          ELSE /\ run' = [run EXCEPT !.pc = "u_skill_cloned",
                                     !.cloned = Some(cloned.v)]
               /\ UNCHANGED last
    /\ UNCHANGED <<head, skills_json, skills_lock, installed, cmds>>
    /\ UNCHANGED <<call, procs, app>>

\* The lock entry update writes for a skill it re-discovered.
update_entry(skill, git_source, new_sha, cloned, marketplace) ==
    LockedSkill(skill.metadata.name, git_source.url, new_sha,
                skill.relative_path, Some(skill.metadata.description),
                marketplace)

\* A variant of UpdateWrite that also copies the skill into the targets.
UpdateWriteCopying ==
    /\ run.pc = "u_skill_cloned"
    /\ LET skill_spec == run.config.skills[run.i]
           skills == discover(Val(run.cloned).sha, skill_spec.path)
           skill == find(skills.v, skill_spec.name)
       IN IF ~skills.ok \/ skill = None
          THEN /\ End("update", run.arg, FALSE)
               /\ UNCHANGED installed
          ELSE /\ run' = At([run EXCEPT
                                !.lock[skill_spec.name] =
                                    Some(update_entry(Val(skill),
                                             run.git_source,
                                             Val(run.new_sha),
                                             Val(run.cloned), None))],
                            UpdateNext(run.config, run.i + 1, run.arg))
               /\ installed' =
                      install_skill_to_agents(installed, skill_spec.name,
                          TreeOf(Val(run.cloned).sha), Val(skill).path,
                          Len(AGENTS))
               /\ UNCHANGED last
    /\ UNCHANGED <<head, skills_json, skills_lock, cmds, faults>>
    /\ UNCHANGED <<call, procs, app>>

\* update: discovery and the lock entry for Declared skill i.
UpdateWrite ==
    /\ run.pc = "u_skill_cloned"
    /\ LET skill_spec == run.config.skills[run.i]
           skills == discover(Val(run.cloned).sha, skill_spec.path)
           skill == find(skills.v, skill_spec.name)
       IN IF ~skills.ok \/ skill = None
          THEN End("update", run.arg, FALSE)
          ELSE /\ run' = At([run EXCEPT
                                !.lock[skill_spec.name] =
                                    Some(update_entry(Val(skill),
                                             run.git_source,
                                             Val(run.new_sha),
                                             Val(run.cloned), None))],
                            UpdateNext(run.config, run.i + 1, run.arg))
               /\ UNCHANGED last
    /\ UNCHANGED <<head, skills_json, skills_lock, installed, cmds, faults>>
    /\ UNCHANGED <<call, procs, app>>

\* update: resolve_sha for marketplace j.
UpdateMktResolve(api, net_ok) ==
    /\ run.pc = "u_mkt"
    /\ (api = "ok" /\ net_ok) \/ MayFail
    /\ Fault(api # "ok" \/ ~net_ok)
    /\ LET git_source == parse(run.config.marketplaces[run.j].source)
           new_sha == resolve_sha(git_source, head, api, net_ok)
       IN IF ~new_sha.ok THEN End("update", run.arg, FALSE)
          ELSE /\ UNCHANGED last
               /\ run' = [At(run, UpdateNextName(run.config, run.lock, run.j,
                                                 1, run.arg, new_sha.v))
                          EXCEPT !.git_source = git_source,
                                 !.new_sha = Some(new_sha.v)]
    /\ UNCHANGED <<head, skills_json, skills_lock, installed, cmds>>
    /\ UNCHANGED <<call, procs, app>>

\* update: the clone for enabled name i of marketplace j.
UpdateMktClone(net_ok) ==
    /\ run.pc = "u_mkt_name"
    /\ net_ok \/ MayFail
    /\ Fault(~net_ok)
    /\ LET cloned == clone(run.git_source, head, net_ok)
       IN IF ~cloned.ok THEN End("update", run.arg, FALSE)
          ELSE /\ run' = [run EXCEPT !.pc = "u_mkt_cloned",
                                     !.cloned = Some(cloned.v)]
               /\ UNCHANGED last
    /\ UNCHANGED <<head, skills_json, skills_lock, installed, cmds>>
    /\ UNCHANGED <<call, procs, app>>

\* update: discovery and the lock entry for enabled name i of marketplace j.
UpdateMktWrite ==
    /\ run.pc = "u_mkt_cloned"
    /\ LET marketplace == run.config.marketplaces[run.j]
           skill_name == marketplace.enabled[run.i]
           skills == discover(Val(run.cloned).sha, None)
           skill == find(skills.v, skill_name)
           lock == [run.lock EXCEPT
                       ![skill_name] =
                           Some(update_entry(Val(skill), run.git_source,
                                    Val(run.new_sha), Val(run.cloned),
                                    Some(marketplace.name)))]
       IN IF ~skills.ok \/ skill = None
          THEN End("update", run.arg, FALSE)
          ELSE /\ run' = [At([run EXCEPT !.lock = lock],
                             UpdateNextName(run.config, lock, run.j,
                                            run.i + 1, run.arg,
                                            Val(run.new_sha)))
                          EXCEPT !.new_sha = run.new_sha]
               /\ UNCHANGED last
    /\ UNCHANGED <<head, skills_json, skills_lock, installed, cmds, faults>>
    /\ UNCHANGED <<call, procs, app>>

\* update: lock.save.
UpdateSave(io_ok) ==
    /\ run.pc = "u_save"
    /\ io_ok \/ MayFail
    /\ Fault(~io_ok)
    /\ skills_lock' = IF io_ok THEN run.lock ELSE skills_lock
    /\ End("update", run.arg, io_ok)
    /\ UNCHANGED <<head, skills_json, installed, cmds>>
    /\ UNCHANGED <<call, procs, app>>

(***************************************************************************)
(* remove (cli/remove.rs)                                                  *)
(***************************************************************************)
\* config after the two retain loops.
remove_from_config(config, skill_name) ==
    LET OtherSkill(e) == e.name # skill_name
        OtherName(n) == n # skill_name
    IN [skills |-> SelectSeq(config.skills, OtherSkill),
        marketplaces |->
            [k \in 1..Len(config.marketplaces) |->
                [config.marketplaces[k] EXCEPT
                    !.enabled = SelectSeq(@, OtherName)]]]

\* `found`: a retain loop removed something.
remove_found(config, skill_name) ==
    \/ HasSkill(config.skills, skill_name)
    \/ \E k \in 1..Len(config.marketplaces) :
          \E m \in 1..Len(config.marketplaces[k].enabled) :
              config.marketplaces[k].enabled[m] = skill_name

\* remove_dir_all of <target>/<name>/ in the first `upto` targets.
remove_installed(inst, skill_name, upto) ==
    [t \in Targets |->
        IF t <= upto THEN [inst[t] EXCEPT ![skill_name] = None] ELSE inst[t]]

\* Whether remove goes on to the file removal and the saves.
remove_proceeds(found) == found

RemoveOutcomes ==
    {<<"ok", Len(AGENTS)>>, <<"load", Len(AGENTS)>>,
     <<"save_config", Len(AGENTS)>>, <<"save_lock", Len(AGENTS)>>}
        \cup {<<"rm", k>> : k \in 0..(Len(AGENTS) - 1)}

\* A variant of Remove that leaves skills-lock.json as it is.
RemoveKeepingLock(skill_name, io, upto) ==
    /\ Start
    /\ io = "ok" \/ MayFail
    /\ LET config == remove_from_config(skills_json, skill_name)
           lock == skills_lock
           found == remove_found(skills_json, skill_name)
       IN IF io = "load"
          THEN /\ Fault(TRUE)
               /\ End("remove", Some(skill_name), FALSE)
               /\ UNCHANGED <<skills_json, skills_lock, installed>>
          ELSE IF ~remove_proceeds(found)
          THEN /\ io = "ok"
               /\ Fault(FALSE)
               /\ End("remove", Some(skill_name), TRUE)
               /\ UNCHANGED <<skills_json, skills_lock, installed>>
          ELSE /\ io = "rm" => installed[upto + 1][skill_name] # None
               /\ Fault(io # "ok")
               /\ installed' = remove_installed(installed, skill_name, upto)
               /\ skills_json' = IF io \in {"ok", "save_lock"} THEN config
                                 ELSE skills_json
               /\ skills_lock' = IF io = "ok" THEN lock ELSE skills_lock
               /\ End("remove", Some(skill_name), io = "ok")
    /\ UNCHANGED head
    /\ UNCHANGED <<call, procs, app>>

\* remove(skill_name).  io is "ok" or the step that fails: "load", "rm"
\* (remove_dir_all in target upto + 1), "save_config" or "save_lock".
Remove(skill_name, io, upto) ==
    /\ Start
    /\ io = "ok" \/ MayFail
    /\ LET config == remove_from_config(skills_json, skill_name)
           lock == [skills_lock EXCEPT ![skill_name] = None]
           found == remove_found(skills_json, skill_name)
       IN IF io = "load"
          THEN /\ Fault(TRUE)
               /\ End("remove", Some(skill_name), FALSE)
               /\ UNCHANGED <<skills_json, skills_lock, installed>>
          ELSE IF ~remove_proceeds(found)
          THEN /\ io = "ok"
               /\ Fault(FALSE)
               /\ End("remove", Some(skill_name), TRUE)
               /\ UNCHANGED <<skills_json, skills_lock, installed>>
          ELSE /\ io = "rm" => installed[upto + 1][skill_name] # None
               /\ Fault(io # "ok")
               /\ installed' = remove_installed(installed, skill_name, upto)
               /\ skills_json' = IF io \in {"ok", "save_lock"} THEN config
                                 ELSE skills_json
               /\ skills_lock' = IF io = "ok" THEN lock ELSE skills_lock
               /\ End("remove", Some(skill_name), io = "ok")
    /\ UNCHANGED head
    /\ UNCHANGED <<call, procs, app>>

(***************************************************************************)
(* The interactive front-end (tui/app.rs)                                  *)
(***************************************************************************)
\* A session in which the user selects `name` in the skills list and
\* presses 'd' (remove_selected_skill): the entry leaves skills.json and
\* skills-lock.json; no install target is touched.  io is "ok" or the
\* save that fails.
TuiRemove(name, io) ==
    /\ Start
    /\ remove_found(skills_json, name)
    /\ io = "ok" \/ MayFail
    /\ Fault(io # "ok")
    /\ skills_json' = IF io = "save_config" THEN skills_json
                      ELSE remove_from_config(skills_json, name)
    /\ skills_lock' = IF io = "ok" THEN [skills_lock EXCEPT ![name] = None]
                      ELSE skills_lock
    /\ End("tui_remove", Some(name), io = "ok")
    /\ UNCHANGED <<head, installed>>
    /\ UNCHANGED <<call, procs, app>>

(***************************************************************************)
(* The environment                                                         *)
(***************************************************************************)
\* A commit is pushed to the default branch of repository A.
Push ==
    /\ head["A"] < MaxHead
    /\ head' = [head EXCEPT !["A"] = @ + 1]
    /\ UNCHANGED <<skills_json, skills_lock, installed, run, last, cmds, faults>>
    /\ UNCHANGED <<call, procs, app>>

\* skills.json is the user-edited file: the user registers marketplace "a"
\* (source "o/a") with the given enabled names, replacing the list.
UserSetMarketplace(enabled) ==
    /\ Start
    /\ skills_json' = [skills_json EXCEPT !.marketplaces =
                          << Marketplace("a", <<"o", "/", "a">>, None,
                                         enabled) >>]
    /\ skills_json' # skills_json
    /\ End("edit", None, TRUE)
    /\ UNCHANGED <<head, skills_lock, installed, faults>>
    /\ UNCHANGED <<call, procs, app>>

\* The user deletes the entry of `name` from the skills of skills.json.
UserDeleteSkill(name) ==
    /\ Start
    /\ HasSkill(skills_json.skills, name)
    /\ skills_json' = [skills_json EXCEPT !.skills =
                          LET Other(e) == e.name # name IN SelectSeq(@, Other)]
    /\ End("edit", None, TRUE)
    /\ UNCHANGED <<head, skills_lock, installed, faults>>
    /\ UNCHANGED <<call, procs, app>>

EnabledLists == { <<"x", "y">> }

Next ==
    \/ Push
    \/ \E e \in EnabledLists : UserSetMarketplace(e)
    \/ \E n \in Names : UserDeleteSkill(n)
    \/ \E a \in AddInputs, net_ok \in BOOLEAN : AddClone(a[1], a[2], net_ok)
    \/ \E io \in {"ok", "load", "save"} : AddFinish(io)
    \/ \E io \in {"ok", "load"} : InstallStart(io)
    \/ \E net_ok \in BOOLEAN : InstallClone(net_ok)
    \/ \E upto \in 0..Len(AGENTS) : InstallCopy(upto)
    \/ \E net_ok \in BOOLEAN : InstallMktClone(net_ok)
    \/ \E fail_k \in 0..Cardinality(Names), upto \in 0..Len(AGENTS) :
          InstallMktCopy(fail_k, upto)
    \/ \E io_ok \in BOOLEAN : InstallSave(io_ok)
    \/ \E n \in UpdateInputs, io \in {"ok", "load"} : UpdateStart(n, io)
    \/ \E api \in ApiOutcomes, net_ok \in BOOLEAN : UpdateResolve(api, net_ok)
    \/ \E net_ok \in BOOLEAN : UpdateClone(net_ok)
    \/ UpdateWrite
    \/ \E api \in ApiOutcomes, net_ok \in BOOLEAN :
          UpdateMktResolve(api, net_ok)
    \/ \E net_ok \in BOOLEAN : UpdateMktClone(net_ok)
    \/ UpdateMktWrite
    \/ \E io_ok \in BOOLEAN : UpdateSave(io_ok)
    \/ \E n \in Names, o \in RemoveOutcomes : Remove(n, o[1], o[2])
    \/ \E n \in Names, io \in {"ok", "save_config", "save_lock"} :
          TuiRemove(n, io)

Spec == Init /\ [][Next]_vars

(***************************************************************************)
(* The library functions on their own: parse and canonical, resolve_sha,   *)
(* discover_skills and the entry add derives from a discovery.  `call`     *)
(* holds the function, its input and, once applied, its result; the        *)
(* stores stay as Init leaves them.                                        *)
(***************************************************************************)
\* Source strings of every form parse distinguishes.
SourceInputs ==
    { <<"o", "/", "a">>,
      <<"o", "/", "a", "/", "skills", "/", "x">>,
      <<"https", ":", "/", "/", "github.com", "/", "o", "/", "a">>,
      <<"https", ":", "/", "/", "github.com", "/", "o", "/", "a", ".git">>,
      <<"https", ":", "/", "/", "github.com", "/", "o", "/", "a", "/",
        "tree", "/", "dev">>,
      <<"https", ":", "/", "/", "github.com", "/", "o", "/", "a", "/",
        "tree", "/", "dev", "/", "skills", "/", "x">>,
      <<"https", ":", "/", "/", "gitlab.com", "/", "o", "/", "a", "/", "-",
        "/", "tree", "/", "dev", "/", "skills", "/", "x">>,
      <<"https", ":", "/", "/", "gitlab.com", "/", "o", "/", "a", ".git">>,
      <<"git@", "github.com", ":", "o", "/", "a", ".git">>,
      <<"git@", "gitlab.com", ":", "o", "/", "a", ".git">>,
      <<"https", ":", "/", "/", "example.com", "/", "o", "/", "a", ".git">>,
      <<".", "/", "local", "/", "repo">>,
      <<"/", "srv", "/", "repo">>,
      <<"github.com", "/", "o", "/", "a">>,
      <<"github.com", "/", "o", "/", "a", "/", "tree", "/", "dev", "/",
        "skills", "/", "x">>,
      <<"gitlab.com", "/", "o", "/", "a", "/", "-", "/", "tree", "/", "dev",
        "/", "skills", "/", "x">>,
      <<"https", ":", "/", "/", "github.com", "/", "o", "/", "a", "/",
        "tree", "/", "dev", "/", "github.com", "/", "x", "/", "y">>,
      <<"alice@", "example.com", ":", "o", "/", "a", ".git">>,
      <<"o", "/", "a", ".git">>,
      <<"repo">>,
      <<>>,
      <<".hidden", "/", "a">>,
      <<"o", "/", "a", ":", "b">>,
      <<"file", ":", "/", "/", "/", "srv", "/", "repo">> }

\* parse, canonical (what add stores), and parse again (what install and
\* update do with the stored string).
ParseCall ==
    /\ call.fn = "parse" /\ call.out = None
    /\ call' = [call EXCEPT !.out =
                    Some([parsed |-> parse(call.in),
                          canonical |-> canonical(parse(call.in)),
                          reparsed |-> parse(canonical(parse(call.in)))])]
    /\ UNCHANGED <<head, skills_json, skills_lock, installed, run, last, cmds,
                   faults, procs, app>>

ResolveInputs ==
    [source : { <<"o", "/", "a">>,
                <<"https", ":", "/", "/", "github.com", "/", "o", "/", "a",
                  "/", "tree", "/", "dev">>,
                <<"https", ":", "/", "/", "gitlab.com", "/", "o", "/", "a",
                  ".git">> },
     heads : {[r \in Repos |-> IF r = "A" THEN h ELSE 1] : h \in 1..MaxHead},
     api : ApiOutcomes,
     net_ok : BOOLEAN]

\* resolve_sha(&GitSource::parse(source)).
ResolveCall ==
    /\ call.fn = "resolve_sha" /\ call.out = None
    /\ call' = [call EXCEPT !.out =
                    Some(resolve_sha(parse(call.in.source), call.in.heads,
                                     call.in.api, call.in.net_ok))]
    /\ UNCHANGED <<head, skills_json, skills_lock, installed, run, last, cmds,
                   faults, procs, app>>

\* SKILL.md contents: a valid one, and one for each way parse_frontmatter
\* rejects a file.
Valid(name) == SkillMd(name, <<"about", name>>)

Broken(opens, closes, yaml_ok, n, d) ==
    Some([opens |-> opens, closes |-> closes, yaml_ok |-> yaml_ok,
          name |-> n, description |-> d])

InvalidManifests ==
    { Broken(FALSE, TRUE, TRUE, Some("a"), Some(<<"about", "a">>)),
      Broken(TRUE, FALSE, TRUE, Some("a"), Some(<<"about", "a">>)),
      Broken(TRUE, TRUE, FALSE, Some("a"), Some(<<"about", "a">>)),
      Broken(TRUE, TRUE, TRUE, None, Some(<<"about", "a">>)),
      Broken(TRUE, TRUE, TRUE, Some(""), Some(<<"about", "a">>)),
      Broken(TRUE, TRUE, TRUE, Some("a"), None),
      Broken(TRUE, TRUE, TRUE, Some("a"), Some("")) }

\* A checked-out tree with a manifest (or None) at each of: the root,
\* skills/a, skills/b, skills/a/n, .claude/skills/c and other/d; read_dir
\* yields skills/b before skills/a when b_first.
Tree(root, a, b, n, c, d, b_first) ==
    << Dir(<<>>, root, {}), Dir(<<"skills">>, None, {}) >>
    \o (IF b_first
        THEN << Dir(<<"skills", "b">>, b, {}), Dir(<<"skills", "a">>, a, {}) >>
        ELSE << Dir(<<"skills", "a">>, a, {}), Dir(<<"skills", "b">>, b, {}) >>)
    \o << Dir(<<"skills", "a", "n">>, n, {}),
          Dir(<<".claude">>, None, {}),
          Dir(<<".claude", "skills">>, None, {}),
          Dir(<<".claude", "skills", "c">>, c, {}),
          Dir(<<"other">>, None, {}),
          Dir(<<"other", "d">>, d, {}) >>

Trees ==
    { Tree(root, a, b, n, c, d, b_first) :
        root \in {None, Valid("r"), BadSkillMd("r")},
        a \in {None, Valid("x")} \cup InvalidManifests,
        b \in {None, Valid("x"), Valid("y")},
        n \in {None, Valid("n"), BadSkillMd("n")},
        c \in {None, Valid("x"), Valid("z"), BadSkillMd("z")},
        d \in {None, Valid("w"), BadSkillMd("w")},
        b_first \in BOOLEAN }

\* A checked-out tree without any conventional skill directory, listed as
\* the descent enumerates it: pkg/e, a chain d1/d2/d3/d4/d5/d6 with a
\* manifest (or None) at d3, d5 and d6, a hidden directory .hidden and its
\* child h, and node_modules/m.
DeepTree(e, m3, m5, m6, hs, hc, dm) ==
    << Dir(<<>>, None, {}),
       Dir(<<"pkg">>, None, {}),
       Dir(<<"pkg", "e">>, e, {}),
       Dir(<<"d1">>, None, {}),
       Dir(<<"d1", "d2">>, None, {}),
       Dir(<<"d1", "d2", "d3">>, m3, {}),
       Dir(<<"d1", "d2", "d3", "d4">>, None, {}),
       Dir(<<"d1", "d2", "d3", "d4", "d5">>, m5, {}),
       Dir(<<"d1", "d2", "d3", "d4", "d5", "d6">>, m6, {}),
       Dir(<<".hidden">>, hs, {}),
       Dir(<<".hidden", "h">>, hc, {}),
       Dir(<<"node_modules">>, None, {}),
       Dir(<<"node_modules", "m">>, dm, {}) >>

DeepTrees ==
    { DeepTree(e, m3, m5, m6, hs, hc, dm) :
        e \in {None, Valid("e"), Valid("s5"), BadSkillMd("e")},
        m3 \in {None, Valid("s3")},
        m5 \in {None, Valid("s5")},
        m6 \in {None, Valid("s6")},
        hs \in {None, Valid("hs")},
        hc \in {None, Valid("hc")},
        dm \in {None, Valid("dm")} }

DiscoverInputs ==
    [tree : Trees, subpath : {None, Some(<<"skills", "/", "a">>)}]
    \cup [tree : DeepTrees, subpath : {None, Some(<<"d1">>)}]

\* discover_skills(&cloned.path, subpath) on a checked-out tree.
DiscoverCall ==
    /\ call.fn = "discover_skills" /\ call.out = None
    /\ call' = [call EXCEPT !.out =
                    Some(discover_skills(call.in.tree, call.in.subpath))]
    /\ UNCHANGED <<head, skills_json, skills_lock, installed, run, last, cmds,
                   faults, procs, app>>

AddCallInputs ==
    [source : { <<"o", "/", "b">>,
                <<"o", "/", "b", "/", "skills", "/", "a">>,
                <<"https", ":", "/", "/", "github.com", "/", "o", "/", "b",
                  "/", "tree", "/", "dev">> },
     tree : { Tree(root, a, None, None, None, d, FALSE) :
                root \in {None, Valid("r")},
                a \in {None, Valid("x")},
                d \in {None, Valid("w")} },
     skill_name : {None, Some("x")}]

\* add on an empty skills.json, from the snapshot on: Ok(the config it
\* saves, or the unchanged one when it only lists the skills), or an error.
AddCall ==
    /\ call.fn = "add" /\ call.out = None
    /\ LET git_source == parse(call.in.source)
           skills == discover_skills(call.in.tree, git_source.subpath)
           selected == select_skills(skills.v, call.in.skill_name)
       IN call' = [call EXCEPT !.out = Some(
              IF ~skills.ok \/ skills.v = <<>> THEN Err
              ELSE IF call.in.skill_name = None /\ Len(skills.v) > 1
              THEN Ok(DefaultConfig)
              ELSE IF selected = <<>> THEN Err
              ELSE Ok(add_specs(DefaultConfig, selected, git_source)))]
    /\ UNCHANGED <<head, skills_json, skills_lock, installed, run, last, cmds,
                   faults, procs, app>>

(***************************************************************************)
(* The two documents (config.rs).  A JSON object is the sequence of its    *)
(* <<key, value>> members in the order written; an array is a sequence.    *)
(***************************************************************************)
\* The member of object o with the key, as an Option.
Get(o, key) ==
    IF \E i \in 1..Len(o) : o[i][1] = key
    THEN Some(o[CHOOSE i \in 1..Len(o) : o[i][1] = key][2])
    ELSE None

\* #[serde(skip_serializing_if = "Option::is_none")]: no member when unset.
Member(key, opt) == IF opt = None THEN <<>> ELSE << <<key, Val(opt)>> >>

\* Serialize for SkillSpec with ref_ written under its field name.
to_json_SkillSpec_unrenamed(e) ==
    << <<"name", e.name>>, <<"source", e.source>> >>
        \o Member("ref_", e.ref_) \o Member("path", e.path)

\* Serialize for SkillSpec: ref_ is renamed to "ref".
to_json_SkillSpec(e) ==
    << <<"name", e.name>>, <<"source", e.source>> >>
        \o Member("ref", e.ref_) \o Member("path", e.path)

\* Deserialize for SkillSpec: name and source are required.
from_json_SkillSpec(o) ==
    IF Get(o, "name") = None \/ Get(o, "source") = None THEN Err
    ELSE Ok(SkillSpec(Val(Get(o, "name")), Val(Get(o, "source")),
                      Get(o, "ref"), Get(o, "path")))

\* Serialize for Marketplace: ref_ keeps its field name.
to_json_Marketplace(m) ==
    << <<"name", m.name>>, <<"source", m.source>> >>
        \o Member("ref_", m.ref_) \o << <<"enabled", m.enabled>> >>

\* Deserialize for Marketplace: enabled defaults to the empty list.
from_json_Marketplace(o) ==
    IF Get(o, "name") = None \/ Get(o, "source") = None THEN Err
    ELSE Ok(Marketplace(Val(Get(o, "name")), Val(Get(o, "source")),
                        Get(o, "ref_"),
                        IF Get(o, "enabled") = None THEN <<>>
                        ELSE Val(Get(o, "enabled"))))

\* serde_json::to_string_pretty(&SkillsConfig).
to_json_SkillsConfig(config) ==
    << <<"$schema", "https://skills.sh/schemas/skills.json">>,
       <<"marketplaces",
         [k \in 1..Len(config.marketplaces) |->
             to_json_Marketplace(config.marketplaces[k])]>>,
       <<"skills",
         [k \in 1..Len(config.skills) |->
             to_json_SkillSpec(config.skills[k])]>> >>

\* serde_json::from_str::<SkillsConfig>: both lists default to empty; an
\* element that does not deserialize fails the whole document.
from_json_SkillsConfig(doc) ==
    LET ms == IF Get(doc, "marketplaces") = None THEN <<>>
              ELSE Val(Get(doc, "marketplaces"))
        ss == IF Get(doc, "skills") = None THEN <<>>
              ELSE Val(Get(doc, "skills"))
    IN IF \/ \E k \in 1..Len(ms) : ~from_json_Marketplace(ms[k]).ok
          \/ \E k \in 1..Len(ss) : ~from_json_SkillSpec(ss[k]).ok
       THEN Err
       ELSE Ok([marketplaces |->
                    [k \in 1..Len(ms) |-> from_json_Marketplace(ms[k]).v],
                skills |->
                    [k \in 1..Len(ss) |-> from_json_SkillSpec(ss[k]).v]])

to_json_LockedSkill(e) ==
    << <<"name", e.name>>, <<"source", e.source>>, <<"sha", e.sha>>,
       <<"path", e.path>> >>
        \o Member("description", e.description)
        \o Member("marketplace", e.marketplace)

from_json_LockedSkill(o) ==
    IF \E key \in {"name", "source", "sha", "path"} : Get(o, key) = None
    THEN Err
    ELSE Ok(LockedSkill(Val(Get(o, "name")), Val(Get(o, "source")),
                        Val(Get(o, "sha")), Val(Get(o, "path")),
                        Get(o, "description"), Get(o, "marketplace")))

\* serde_json::to_string_pretty(&SkillsLock); `order` is the order in which
\* the HashMap yields its keys.
to_json_SkillsLock(lock, order) ==
    LET Present(n) == lock[n] # None
        keys == SelectSeq(order, Present)
    IN << <<"$schema", "https://skills.sh/schemas/skills-lock.json">>,
          <<"version", 1>>,
          <<"marketplaces", <<>>>>,
          <<"skills",
            [k \in 1..Len(keys) |->
                <<keys[k], to_json_LockedSkill(Val(lock[keys[k]]))>>]>> >>

\* serde_json::from_str::<SkillsLock>: version is required, the maps
\* default to empty.
from_json_SkillsLock(doc) ==
    LET ss == IF Get(doc, "skills") = None THEN <<>>
              ELSE Val(Get(doc, "skills"))
    IN IF \/ Get(doc, "version") = None
          \/ \E k \in 1..Len(ss) : ~from_json_LockedSkill(ss[k][2]).ok
       THEN Err
       ELSE Ok([n \in Names |->
                   IF Get(ss, n) = None THEN None
                   ELSE Some(from_json_LockedSkill(Val(Get(ss, n))).v)])

\* The values of skills.json and skills-lock.json the round trip is taken
\* of.
SpecInputs ==
    { SkillSpec(n, <<"o", "/", "a">>, ref, path) :
        n \in Names, ref \in {None, Some(<<"dev">>)},
        path \in {None, Some(<<"skills", "/", "x">>)} }

ConfigInputs ==
    [marketplaces :
        {<<>>} \cup
        { << Marketplace("a", <<"o", "/", "a">>, ref, enabled) >> :
            ref \in {None, Some(<<"dev">>)},
            enabled \in {<<>>, <<"x", "y">>} },
     skills :
        {<<>>} \cup { <<e>> : e \in SpecInputs }
        \cup { <<e, f>> : e \in {g \in SpecInputs : g.name = "x"},
                           f \in {g \in SpecInputs : g.name = "y"} }]

LockEntries(n) ==
    {None} \cup
    { Some(LockedSkill(n, UrlA, <<"A", 1>>, <<"skills", "/", n>>, d, m)) :
        d \in {None, Some(<<n, "A", "1">>)}, m \in {None, Some("a")} }

LockInputs ==
    { [lock |-> [n \in Names |-> IF n = "x" THEN ex ELSE ey], order |-> o] :
        ex \in LockEntries("x"), ey \in LockEntries("y"),
        o \in { <<"x", "y">>, <<"y", "x">> } }

\* config.save, then SkillsConfig::load of what was written.
ConfigSaveLoad ==
    /\ call.fn = "config" /\ call.out = None
    /\ call' = [call EXCEPT !.out =
                    Some([doc |-> to_json_SkillsConfig(call.in),
                          loaded |-> from_json_SkillsConfig(
                                         to_json_SkillsConfig(call.in))])]
    /\ UNCHANGED <<head, skills_json, skills_lock, installed, run, last, cmds,
                   faults, procs, app>>

\* lock.save, then SkillsLock::load of what was written.
LockSaveLoad ==
    /\ call.fn = "lock" /\ call.out = None
    /\ call' = [call EXCEPT !.out =
                    Some([doc |-> to_json_SkillsLock(call.in.lock,
                                                     call.in.order),
                          loaded |-> from_json_SkillsLock(
                                         to_json_SkillsLock(call.in.lock,
                                                            call.in.order))])]
    /\ UNCHANGED <<head, skills_json, skills_lock, installed, run, last, cmds,
                   faults, procs, app>>

Pending(fn, in) == [fn |-> fn, in |-> in, out |-> None]

InitCalls ==
    /\ head = [r \in Repos |-> 1]
    /\ skills_json = DefaultConfig
    /\ skills_lock = DefaultLock
    /\ installed = [t \in Targets |-> [n \in Names |-> None]]
    /\ run = Idle
    /\ last = NoLast
    /\ cmds = 0
    /\ faults = 0
    /\ procs = NoProcs
    /\ app = NoApp
    /\ \/ \E i \in SourceInputs : call = Pending("parse", i)
       \/ \E i \in ResolveInputs : call = Pending("resolve_sha", i)
       \/ \E i \in DiscoverInputs : call = Pending("discover_skills", i)
       \/ \E i \in AddCallInputs : call = Pending("add", i)
       \/ \E i \in ConfigInputs : call = Pending("config", i)
       \/ \E i \in LockInputs : call = Pending("lock", i)

NextCalls ==
    \/ ParseCall
    \/ ResolveCall
    \/ DiscoverCall
    \/ AddCall
    \/ ConfigSaveLoad
    \/ LockSaveLoad

SpecCalls == InitCalls /\ [][NextCalls]_vars

(***************************************************************************)
(* install on a skills.json the user has written: one or two marketplaces  *)
(* ("a", then "b") with any enabled lists, with or without a Declared      *)
(* skill; upstream may move while install runs.                            *)
(***************************************************************************)
MktConfigs ==
    [marketplaces :
        { << Marketplace("a", <<"o", "/", "a">>, None, e) >> :
            e \in {<<>>, <<"x">>, <<"x", "y">>} }
        \cup
        { << Marketplace("a", <<"o", "/", "a">>, None, e),
             Marketplace("b", src, None, f) >> :
            e \in {<<>>, <<"x">>, <<"x", "y">>},
            src \in { <<"o", "/", "a">>, <<"o", "/", "b">> },
            f \in {<<>>, <<"x">>, <<"y">>} },
     skills :
        { <<>>,
          << SkillSpec("y", <<"o", "/", "a">>, None,
                       Some(<<"skills", "/", "y">>)) >> }]

InitMkt ==
    /\ head = [r \in Repos |-> 1]
    /\ skills_json \in MktConfigs
    /\ skills_lock = DefaultLock
    /\ installed = [t \in Targets |-> [n \in Names |-> None]]
    /\ run = Idle
    /\ last = NoLast
    /\ cmds = 0
    /\ faults = 0
    /\ call = NoCall
    /\ procs = NoProcs
    /\ app = NoApp

NextMkt ==
    \/ Push
    \/ \E io \in {"ok", "load"} : InstallStart(io)
    \/ \E net_ok \in BOOLEAN : InstallClone(net_ok)
    \/ \E upto \in 0..Len(AGENTS) : InstallCopy(upto)
    \/ \E net_ok \in BOOLEAN : InstallMktClone(net_ok)
    \/ \E fail_k \in 0..Cardinality(Names), upto \in 0..Len(AGENTS) :
          InstallMktCopy(fail_k, upto)
    \/ \E io_ok \in BOOLEAN : InstallSave(io_ok)

SpecMkt == InitMkt /\ [][NextMkt]_vars

\* update on the same hand-written configurations: the command's steps and
\* pushes to the remotes.
NextUpd ==
    \/ Push
    \/ \E n \in UpdateInputs, io \in {"ok", "load"} : UpdateStart(n, io)
    \/ \E api \in ApiOutcomes, net_ok \in BOOLEAN : UpdateResolve(api, net_ok)
    \/ \E net_ok \in BOOLEAN : UpdateClone(net_ok)
    \/ UpdateWrite
    \/ \E api \in ApiOutcomes, net_ok \in BOOLEAN :
          UpdateMktResolve(api, net_ok)
    \/ \E net_ok \in BOOLEAN : UpdateMktClone(net_ok)
    \/ UpdateMktWrite
    \/ \E io_ok \in BOOLEAN : UpdateSave(io_ok)

SpecUpd == InitMkt /\ [][NextUpd]_vars

\* Configurations whose entries carry a ref: the Declared skill is the one
\* add stores for https://github.com/o/a/tree/dev/skills/x (canonical
\* source, ref_, relative path); the marketplace is hand-written with
\* ref_ dev.
RefSkill ==
    LET git_source == parse(<<"https", ":", "/", "/", "github.com", "/", "o",
                              "/", "a", "/", "tree", "/", "dev", "/",
                              "skills", "/", "x">>)
        cloned == clone(git_source, [r \in Repos |-> 1], TRUE)
        skills == discover(cloned.v.sha, git_source.subpath)
    IN add_specs(DefaultConfig, select_skills(skills.v, None),
                 git_source).skills

RefConfigs ==
    [marketplaces :
        { <<>>,
          << Marketplace("a", <<"o", "/", "a">>, Some(<<"dev">>), <<"x">>) >> },
     skills : { <<>>, RefSkill }]
    \ {DefaultConfig}

InitRef ==
    /\ head = [r \in Repos |-> 1]
    /\ skills_json \in RefConfigs
    /\ skills_lock = DefaultLock
    /\ installed = [t \in Targets |-> [n \in Names |-> None]]
    /\ run = Idle
    /\ last = NoLast
    /\ cmds = 0
    /\ faults = 0
    /\ call = NoCall
    /\ procs = NoProcs
    /\ app = NoApp

\* install and update on these configurations.
NextRef == NextMkt \/ NextUpd

SpecRef == InitRef /\ [][NextRef]_vars

\* The command line alone: add, install, update and remove, and pushes to
\* the remotes, from a lock without entries and a configuration that is
\* empty or holds hand-written marketplaces.  The environment makes no
\* step fail: the network, the hosting API and the file system answer; a
\* command still fails when a skill it needs is not in the snapshot.
CliConfigs ==
    { DefaultConfig,
      [marketplaces |->
           << Marketplace("a", <<"o", "/", "a">>, None, <<"x", "y">>) >>,
       skills |-> <<>>],
      [marketplaces |->
           << Marketplace("a", <<"o", "/", "a">>, None, <<"x">>),
              Marketplace("b", <<"o", "/", "b">>, None, <<"x">>) >>,
       skills |-> <<>>] }

InitCli ==
    /\ head = [r \in Repos |-> 1]
    /\ skills_json \in CliConfigs
    /\ skills_lock = DefaultLock
    /\ installed = [t \in Targets |-> [n \in Names |-> None]]
    /\ run = Idle
    /\ last = NoLast
    /\ cmds = 0
    /\ faults = 0
    /\ call = NoCall
    /\ procs = NoProcs
    /\ app = NoApp

NextCli ==
    \/ Push
    \/ \E a \in AddInputs : AddClone(a[1], a[2], TRUE)
    \/ AddFinish("ok")
    \/ InstallStart("ok")
    \/ InstallClone(TRUE)
    \/ InstallCopy(Len(AGENTS))
    \/ InstallMktClone(TRUE)
    \/ InstallMktCopy(0, Len(AGENTS))
    \/ InstallSave(TRUE)
    \/ \E n \in UpdateInputs : UpdateStart(n, "ok")
    \/ UpdateResolve("ok", TRUE)
    \/ UpdateClone(TRUE)
    \/ UpdateWrite
    \/ UpdateMktResolve("ok", TRUE)
    \/ UpdateMktClone(TRUE)
    \/ UpdateMktWrite
    \/ UpdateSave(TRUE)
    \/ \E n \in Names : Remove(n, "ok", Len(AGENTS))

SpecCli == InitCli /\ [][NextCli]_vars

(***************************************************************************)
(* Two invocations at the same time in one project directory.  Each is an  *)
(* add of a skill of o/a (taken up where it loads skills.json, after the   *)
(* discovery) or a remove; the steps are the reads and writes of the two   *)
(* files, which the invocations interleave freely: nothing in load or      *)
(* save takes a lock.                                                      *)
(***************************************************************************)
\* The most commands one invocation slot runs, one after the other.
MaxRuns == 2

RaceUnchanged == UNCHANGED <<head, run, last, cmds, faults, call, app>>

\* add: SkillsConfig::load.
RaceAddLoad(p, n) ==
    /\ procs[p].pc = "idle" /\ procs[p].runs < MaxRuns
    /\ procs' = [procs EXCEPT ![p] =
                    [pc |-> "add_loaded", cmd |-> "add", name |-> Some(n),
                     config |-> skills_json, lock |-> DefaultLock,
                     runs |-> @.runs + 1]]
    /\ UNCHANGED <<skills_json, skills_lock, installed>>
    /\ RaceUnchanged

\* RaceAddSave that reads skills.json again before it writes.
RaceAddSaveMerging(p) ==
    /\ procs[p].pc = "add_loaded"
    /\ skills_json' =
           add_specs(skills_json,
                     select_skills(discover(<<"A", 1>>, None).v, procs[p].name),
                     parse(<<"o", "/", "a">>))
    /\ procs' = [procs EXCEPT ![p].pc = "idle"]
    /\ UNCHANGED <<skills_lock, installed>>
    /\ RaceUnchanged

\* add: the entry is put into the loaded config, and config.save.
RaceAddSave(p) ==
    /\ procs[p].pc = "add_loaded"
    /\ skills_json' =
           add_specs(procs[p].config,
                     select_skills(discover(<<"A", 1>>, None).v, procs[p].name),
                     parse(<<"o", "/", "a">>))
    /\ procs' = [procs EXCEPT ![p].pc = "idle"]
    /\ UNCHANGED <<skills_lock, installed>>
    /\ RaceUnchanged

\* remove: SkillsConfig::load.
RaceRemoveLoadConfig(p, n) ==
    /\ procs[p].pc = "idle" /\ procs[p].runs < MaxRuns
    /\ procs' = [procs EXCEPT ![p] =
                    [pc |-> "rm_config_loaded", cmd |-> "remove",
                     name |-> Some(n), config |-> skills_json,
                     lock |-> DefaultLock, runs |-> @.runs + 1]]
    /\ UNCHANGED <<skills_json, skills_lock, installed>>
    /\ RaceUnchanged

\* remove: SkillsLock::load, the retain loops, and the return when the
\* name was not found.
RaceRemoveLoadLock(p) ==
    /\ procs[p].pc = "rm_config_loaded"
    /\ procs' = [procs EXCEPT
                    ![p].lock = skills_lock,
                    ![p].pc = IF remove_proceeds(
                                    remove_found(procs[p].config,
                                                 Val(procs[p].name)))
                              THEN "rm_loaded" ELSE "idle"]
    /\ UNCHANGED <<skills_json, skills_lock, installed>>
    /\ RaceUnchanged

\* remove: the directories are removed, and config.save.
RaceRemoveSaveConfig(p) ==
    /\ procs[p].pc = "rm_loaded"
    /\ installed' = remove_installed(installed, Val(procs[p].name),
                                     Len(AGENTS))
    /\ skills_json' = remove_from_config(procs[p].config, Val(procs[p].name))
    /\ procs' = [procs EXCEPT ![p].pc = "rm_config_saved"]
    /\ UNCHANGED skills_lock
    /\ RaceUnchanged

\* remove: lock.save.
RaceRemoveSaveLock(p) ==
    /\ procs[p].pc = "rm_config_saved"
    /\ skills_lock' = [procs[p].lock EXCEPT ![Val(procs[p].name)] = None]
    /\ procs' = [procs EXCEPT ![p].pc = "idle"]
    /\ UNCHANGED <<skills_json, installed>>
    /\ RaceUnchanged

NextRace ==
    \/ \E p \in Procs, n \in Names : RaceAddLoad(p, n)
    \/ \E p \in Procs : RaceAddSave(p)
    \/ \E p \in Procs, n \in Names : RaceRemoveLoadConfig(p, n)
    \/ \E p \in Procs : RaceRemoveLoadLock(p)
    \/ \E p \in Procs : RaceRemoveSaveConfig(p)
    \/ \E p \in Procs : RaceRemoveSaveLock(p)

SpecRace == Init /\ [][NextRace]_vars


(***************************************************************************)
(* Vocabulary of the properties                                            *)
(***************************************************************************)
\* No command is in progress and the last one was `cmd`, which succeeded.
Done(cmd) == run.pc = "idle" /\ last.cmd = cmd /\ last.ok

Entry(skills, name) ==
    skills[CHOOSE i \in 1..Len(skills) : skills[i].name = name]

EnabledSomewhere(config, name) ==
    \E k \in 1..Len(config.marketplaces) :
        \E m \in 1..Len(config.marketplaces[k].enabled) :
            config.marketplaces[k].enabled[m] = name

\* The names install processes.
Wants(config, name) ==
    HasSkill(config.skills, name) \/ EnabledSomewhere(config, name)

\* The files of the skill directory a Resolved entry points at, in the
\* snapshot of the commit it records.
FilesOf(locked) ==
    FilesUnder(TreeOf(locked.sha), Segs(locked.path))

\* This step ends a command (or is a whole command) ...
Ends == run'.pc = "idle" /\ (run.pc # "idle" \/ cmds' # cmds)
\* ... and this one is inside a command that goes on.
GoesOn == run'.pc # "idle"

(***************************************************************************)
(* C1.  install fetches a Declared skill from the location its entry       *)
(* declares, whether or not a Resolved entry exists: after a successful    *)
(* install, the Resolved entry of every Declared skill (not also enabled   *)
(* in a marketplace) records the address of the declared source and a      *)
(* commit of that repository.                                              *)
(***************************************************************************)
C1_InstallUsesDeclaredSource ==
    Done("install") =>
        \A n \in Names :
            (HasSkill(skills_json.skills, n)
                /\ ~EnabledSomewhere(skills_json, n))
            => LET declared == parse(Entry(skills_json.skills, n).source)
               IN /\ skills_lock[n] # None
                  /\ Val(skills_lock[n]).source = declared.url
                  /\ RepoOf(declared.url) = Some(Val(skills_lock[n]).sha[1])

(***************************************************************************)
(* C2.  After remove(name) returns, name is absent from Declared.skills,   *)
(* from every enabled set, from the persisted Resolved store and from      *)
(* every install target, whatever the starting state was.                  *)
(***************************************************************************)
C2_RemoveIsTotal ==
    Done("remove") =>
        LET name == Val(last.arg)
        IN /\ ~Wants(skills_json, name)
           /\ skills_lock[name] = None
           /\ \A t \in Targets : installed[t][name] = None

(***************************************************************************)
(* C3.  All-or-nothing persistence: a step inside a command, and the step  *)
(* that ends a command in failure, leave the persisted Declared and        *)
(* Resolved stores as they were.                                           *)
(***************************************************************************)
C3_FailureKeepsStores ==
    [][(GoesOn \/ (Ends /\ ~last'.ok))
          => (skills_json' = skills_json /\ skills_lock' = skills_lock)]_vars

(***************************************************************************)
(* C4.  Whenever install or update writes the Resolved entry of a name,    *)
(* the commit it records is the commit of the snapshot in which the        *)
(* manifest was discovered.                                                *)
(***************************************************************************)
C4_RecordedCommitIsDiscovered ==
    [][\A n \in Names :
          (run.pc # "idle" /\ GoesOn /\ run'.lock[n] # run.lock[n]
              /\ run'.lock[n] # None)
          => Val(run'.lock[n]).sha = Val(run.cloned).sha]_vars

\* A step of update: inside it, into it, or its last one.
UpdateStep ==
    \/ run.cmd = "update"
    \/ run'.cmd = "update"
    \/ (Ends /\ last'.cmd = "update")

(***************************************************************************)
(* C5.  update never creates, modifies or deletes anything in an install   *)
(* target: every step of update leaves every <target>/<name>/ as it was.   *)
(***************************************************************************)
C5_UpdateLeavesTargets == [][UpdateStep => installed' = installed]_vars

\* The stale window: update has moved the Resolved commit of a name on
\* while every target still holds the copy of an earlier commit.
C5_StaleWindow ==
    /\ Done("update")
    /\ \E n \in Names :
          /\ skills_lock[n] # None
          /\ \E k \in 1..MaxHead :
                /\ k < Val(skills_lock[n]).sha[2]
                /\ \A t \in Targets :
                      installed[t][n] =
                          Some(FilesUnder(TreeOf(<<Val(skills_lock[n]).sha[1],
                                                   k>>),
                                          Segs(Val(skills_lock[n]).path)))

(***************************************************************************)
(* C6.  After a successful install, <target>/<name>/ holds exactly the     *)
(* files of the discovered skill directory in the snapshot just acquired,  *)
(* for every target and every name install processed: no file of an       *)
(* earlier copy survives.                                                  *)
(***************************************************************************)
C6_TargetIsExactlyTheSnapshot ==
    Done("install") =>
        \A n \in Names :
            Wants(skills_json, n) =>
                /\ skills_lock[n] # None
                /\ \A t \in Targets :
                      installed[t][n] = Some(FilesOf(Val(skills_lock[n])))

(***************************************************************************)
(* C7.  Immediately after a successful install, every Declared name and    *)
(* every enabled name has a Resolved entry, and every target holds a       *)
(* <name>/ directory with every file of the skill directory at the commit  *)
(* that entry records.                                                     *)
(***************************************************************************)
C7_InstallCoversEveryName ==
    Done("install") =>
        \A n \in Names :
            Wants(skills_json, n) =>
                /\ skills_lock[n] # None
                /\ \A t \in Targets :
                      /\ installed[t][n] # None
                      /\ FilesOf(Val(skills_lock[n]))
                             \subseteq Val(installed[t][n])

\* A successful install that went through a Declared skill and a
\* marketplace with enabled names.
C7_InstalledBoth ==
    /\ Done("install")
    /\ skills_json.skills # <<>>
    /\ \E n \in Names : EnabledSomewhere(skills_json, n)
    /\ \A n \in Names : skills_lock[n] # None

\* Every Resolved commit of a name install processes is still the head of
\* its repository.
SameUpstream ==
    \A n \in Names :
        Wants(run.config, n) =>
            /\ skills_lock[n] # None
            /\ Val(skills_lock[n]).sha[2] = head[Val(skills_lock[n]).sha[1]]

\* An install is running, and the command before it was a successful
\* install of the same skills.json.
SecondInstall ==
    /\ run.cmd = "install"
    /\ last.cmd = "install" /\ last.ok
    /\ run.config = skills_json
    /\ SameUpstream

(***************************************************************************)
(* C8.  install is idempotent: in an install that directly follows a       *)
(* successful install, with Declared unchanged and every Resolved commit   *)
(* still the head of its repository, no step changes an install target or  *)
(* the persisted Resolved store.                                           *)
(***************************************************************************)
C8_InstallIdempotent ==
    [][(SecondInstall /\ head' = head)
          => (installed' = installed /\ skills_lock' = skills_lock)]_vars

\* The second install has processed every entry and is about to save.
C8_SecondInstallAtSave ==
    /\ SecondInstall
    /\ run.pc = "i_save"
    /\ run.lock = skills_lock
    /\ \E n \in Names : /\ skills_lock[n] # None
                        /\ installed[Len(AGENTS)][n] # None

\* No two entries carry the same name.
NameOnce(skills) ==
    \A i, j \in 1..Len(skills) : skills[i].name = skills[j].name => i = j

\* The step of add that saves skills.json writes the entry of this add.
AddUpserts ==
    (run.pc = "add_cloned" /\ Ends /\ last'.ok /\ skills_json' # skills_json)
    => LET skills == discover(Val(run.cloned).sha, run.git_source.subpath)
           selected == select_skills(skills.v, run.arg)
       IN \A k \in 1..Len(selected) :
             LET name == selected[k].metadata.name
             IN /\ HasSkill(skills_json'.skills, name)
                /\ Entry(skills_json'.skills, name) =
                      [name |-> name,
                       source |-> canonical(run.git_source),
                       ref_ |-> run.git_source.ref_,
                       path |-> Some(selected[k].relative_path)]

(***************************************************************************)
(* C9.  No name appears twice in Declared.skills, and an add that saves    *)
(* leaves, for every skill it selected, the one entry of that name: the    *)
(* canonical source, the ref and the subpath of this add.                  *)
(***************************************************************************)
C9_NameOnceAndUpsert ==
    /\ [](NameOnce(skills_json.skills))
    /\ [][AddUpserts]_vars

\* An add replaced the entry of a name that was declared from another
\* repository and installed from it.
C9_Replaced ==
    /\ Done("add")
    /\ \E n \in Names :
          /\ HasSkill(skills_json.skills, n)
          /\ Entry(skills_json.skills, n).source = <<"o", "/", "b">>
          /\ skills_lock[n] # None
          /\ Val(skills_lock[n]).source = UrlA

\* A step of the command in progress (not a push upstream).
CommandStep == run.pc # "idle" /\ head' = head

\* The clone in hand yields no snapshot.
NoSnapshot ==
    /\ run.pc \in {"i_skill", "i_mkt", "u_skill_clone", "u_mkt_name"}
    /\ run'.cloned = None

\* The Declared skill in hand is not in the snapshot, or discovery fails.
BadSkill ==
    /\ run.pc \in {"i_skill_cloned", "u_skill_cloned"}
    /\ LET skill_spec == run.config.skills[run.i]
           skills == discover(Val(run.cloned).sha, skill_spec.path)
       IN ~skills.ok \/ find(skills.v, skill_spec.name) = None

\* The enabled names of the marketplace in hand that install copies
\* before it meets one that is not in the snapshot.
CopiedBeforeBad(enabled, skills) ==
    {enabled[k] : k \in {m \in 1..Len(enabled) :
                            \A l \in 1..m : find(skills, enabled[l]) # None}}

BadMarketplace ==
    /\ run.pc \in {"i_mkt_cloned", "u_mkt_cloned"}
    /\ LET marketplace == run.config.marketplaces[run.j]
           skills == discover(Val(run.cloned).sha, None)
       IN \/ ~skills.ok
          \/ IF run.pc = "i_mkt_cloned"
             THEN \E k \in 1..Len(marketplace.enabled) :
                     find(skills.v, marketplace.enabled[k]) = None
             ELSE find(skills.v, marketplace.enabled[run.i]) = None

\* What the failing step may have copied: nothing, or (install, in the
\* marketplace in hand) the enabled names before the absent one.
NothingLaterCopied ==
    LET skills == discover(Val(run.cloned).sha, None)
        before == IF run.pc = "i_mkt_cloned" /\ skills.ok
                  THEN CopiedBeforeBad(run.config.marketplaces[run.j].enabled,
                                       skills.v)
                  ELSE {}
    IN \A t \in Targets, n \in Names \ before :
          installed'[t][n] = installed[t][n]

CopiesRemain ==
    \A t \in Targets, n \in Names :
        installed[t][n] # None =>
            /\ installed'[t][n] # None
            /\ {e.f : e \in Val(installed[t][n])}
                   \subseteq {e.f : e \in Val(installed'[t][n])}

(***************************************************************************)
(* C10.  In install and update, an entry that cannot be processed (no      *)
(* snapshot acquired, invalid manifest, name absent from the discovery     *)
(* result) ends the command in failure at that step, with nothing copied   *)
(* for it or after it; and an install or update that fails leaves the      *)
(* persisted Resolved store unchanged and the copies already written in    *)
(* place.                                                                  *)
(***************************************************************************)
C10_BadEntryAborts ==
    [][CommandStep =>
          /\ NoSnapshot =>
                (run' = Idle /\ ~last'.ok /\ installed' = installed)
          /\ (BadSkill \/ BadMarketplace) =>
                (run' = Idle /\ ~last'.ok /\ NothingLaterCopied)
          /\ (run.cmd \in {"install", "update"} /\ Ends /\ ~last'.ok) =>
                (skills_lock' = skills_lock /\ CopiesRemain)]_vars

\* install copied x into every target and then failed, without any
\* environment failure, on a later entry: the copy of x is on disk and
\* Resolved has no entry for it.
C10_EarlierCopyRemains ==
    /\ run.pc = "idle" /\ last.cmd = "install" /\ ~last.ok
    /\ faults = 0
    /\ skills_lock["x"] = None
    /\ \A t \in Targets : installed[t]["x"] # None

(***************************************************************************)
(* C11.  When remove(name) finds name in none of Declared.skills, the      *)
(* enabled sets and Resolved.skills, it ends successfully and still        *)
(* deletes <name>/ from every install target that has one.                 *)
(***************************************************************************)
C11_NotFoundStillCleans ==
    [][\A n \in Names :
          (/\ run.pc = "idle" /\ Ends
           /\ last'.cmd = "remove" /\ last'.arg = Some(n)
           /\ faults' = faults
           /\ ~Wants(skills_json, n)
           /\ skills_lock[n] = None)
          => (last'.ok /\ \A t \in Targets : installed'[t][n] = None)]_vars

\* The positions at which a command reads from a snapshot (discovery, file
\* copy).
SnapshotPcs ==
    {"add_cloned", "i_skill_cloned", "i_mkt_cloned", "u_skill_cloned",
     "u_mkt_cloned"}

(***************************************************************************)
(* C12.  No snapshot directory outlives its command, however the command   *)
(* ends, and wherever a command discovers in or copies from a snapshot     *)
(* the snapshot exists.                                                    *)
(***************************************************************************)
C12_SnapshotLifetime ==
    /\ run.pc = "idle" => run.cloned = None
    /\ run.pc \in SnapshotPcs => run.cloned # None

\* A command that held a snapshot has ended in failure.
C12_FailedAfterClone ==
    /\ run.pc = "idle" /\ run.cloned = None
    /\ last.cmd \in {"add", "install", "update"} /\ ~last.ok
    /\ faults = 0

\* A resolve_sha call has returned.
Resolved == call.fn = "resolve_sha" /\ call.out # None

(***************************************************************************)
(* C13.  Whatever the hosting API does short of a successful answer (the   *)
(* request fails in transport, the status is not a success, the body does  *)
(* not parse, the answer has no commit field), resolve_sha clones instead  *)
(* and returns the commit of the clone; it does not fail when the clone    *)
(* would succeed.                                                          *)
(***************************************************************************)
C13_EveryApiFailureFallsBack ==
    (Resolved /\ call.in.api # "ok")
    => LET cloned == clone(parse(call.in.source), call.in.heads,
                           call.in.net_ok)
       IN cloned.ok => Val(call.out) = Ok(cloned.v.sha)

\* A parse call has returned.
Parsed == call.fn = "parse" /\ call.out # None

(***************************************************************************)
(* C14.  For every source string s, parsing the canonical string of        *)
(* parse(s) gives the remote address of parse(s): what install and update  *)
(* fetch from, working from the stored source, is what add fetched from.   *)
(***************************************************************************)
C14_CanonicalKeepsRemote ==
    Parsed => Val(call.out).reparsed.url = Val(call.out).parsed.url

\* The directories of a tree that hold a SKILL.md, and those whose
\* SKILL.md is a valid manifest.
ManifestDirs(tree) ==
    { tree[i].path : i \in {j \in 1..Len(tree) : tree[j].manifest # None} }

ValidDirs(tree) ==
    { d \in ManifestDirs(tree) :
        parse_frontmatter(Val(DirAt(tree, d).manifest)).ok }

IsPrefix(p, d) == Len(p) <= Len(d) /\ SubSeq(d, 1, Len(p)) = p

\* The directory discovery starts from.
EffectiveRoot(subpath) == IF subpath = None THEN <<>> ELSE Segs(Val(subpath))

\* An add call without a name has returned, on a repository whose only
\* SKILL.md is valid and lies at or below the subpath of the source.
AddedSole ==
    /\ call.fn = "add" /\ call.out # None
    /\ call.in.skill_name = None
    /\ Cardinality(ManifestDirs(call.in.tree)) = 1
    /\ \A d \in ManifestDirs(call.in.tree) :
          /\ d \in ValidDirs(call.in.tree)
          /\ IsPrefix(EffectiveRoot(parse(call.in.source).subpath), d)

\* The config holding one entry, for the skill of directory d, with the
\* given path.
SoleEntry(d, path) ==
    [DefaultConfig EXCEPT !.skills =
        << SkillSpec(Val(Val(DirAt(call.in.tree, d).manifest).name),
                     canonical(parse(call.in.source)),
                     parse(call.in.source).ref_, path) >>]

AddAmbiguous ==
    /\ run.pc = "add_cloned" /\ run'.pc = "idle"
    /\ run.arg = None
    /\ discover(Val(run.cloned).sha, run.git_source.subpath).ok
    /\ Len(discover(Val(run.cloned).sha, run.git_source.subpath).v) > 1

(***************************************************************************)
(* C16.  add with no name, when more than one skill is discovered,         *)
(* changes nothing: skills.json, skills-lock.json and every install        *)
(* target are as before.                                                   *)
(***************************************************************************)
C16_AmbiguousAddChangesNothing ==
    [][AddAmbiguous =>
          /\ skills_json' = skills_json
          /\ skills_lock' = skills_lock
          /\ installed' = installed]_vars

\* add "o/a" without a name has ended without error and skills.json
\* declares no skill: o/a holds x and y.
C16_AmbiguousAddEnded ==
    /\ run.pc = "idle"
    /\ last = [cmd |-> "add", arg |-> None, ok |-> TRUE]
    /\ skills_json.skills = <<>>
    /\ head["A"] = 1

\* A discover_skills call has returned.
Discovered == call.fn = "discover_skills" /\ call.out # None

\* What try_parse_skill makes of the valid skill directory d.
SkillAt(tree, d) ==
    [metadata |-> [name |-> Val(Val(DirAt(tree, d).manifest).name),
                   description |->
                       Val(Val(DirAt(tree, d).manifest).description)],
     path |-> d, relative_path |-> JoinSlash(d)]

(***************************************************************************)
(* C17.  When the directory discovery starts from (the snapshot root, or   *)
(* the subpath below it) is itself a valid skill directory, discover       *)
(* returns exactly that skill, whatever valid or invalid skill             *)
(* directories lie beneath it.                                             *)
(***************************************************************************)
C17_RootSkillShortCircuits ==
    (Discovered /\ EffectiveRoot(call.in.subpath) \in ValidDirs(call.in.tree))
    => Val(call.out) =
          Ok(<< SkillAt(call.in.tree, EffectiveRoot(call.in.subpath)) >>)

\* discover_skills from skills/a, a valid skill with an invalid SKILL.md in
\* skills/a/n beneath it, has returned one skill.
C17_SkillAboveInvalid ==
    /\ Discovered
    /\ call.in.subpath = Some(<<"skills", "/", "a">>)
    /\ <<"skills", "a">> \in ValidDirs(call.in.tree)
    /\ <<"skills", "a", "n">> \in
           ManifestDirs(call.in.tree) \ ValidDirs(call.in.tree)
    /\ Val(call.out).ok /\ Len(Val(call.out).v) = 1

\* The valid skill directories that are children of a priority directory
\* below root: the candidates of the priority scan.
InPriorityDir(root, d, i) ==
    /\ Len(d) = Len(root \o SEARCH_DIRS[i]) + 1
    /\ IsPrefix(root \o SEARCH_DIRS[i], d)

Candidates(tree, root) ==
    { d \in ValidDirs(tree) :
        \E i \in 1..Len(SEARCH_DIRS) : InPriorityDir(root, d, i) }

NameAt(tree, d) == Val(Val(DirAt(tree, d).manifest).name)

\* d1 comes before d2 in the scan: in an earlier priority directory, or in
\* the same one and earlier in its enumeration.
Before(tree, root, d1, d2) ==
    LET Rank(d) == CHOOSE i \in 1..Len(SEARCH_DIRS) : InPriorityDir(root, d, i)
        Pos(d) == CHOOSE i \in 1..Len(tree) : tree[i].path = d
    IN \/ Rank(d1) < Rank(d2)
       \/ Rank(d1) = Rank(d2) /\ Pos(d1) < Pos(d2)

\* discover_skills has returned skills from a start directory that is not
\* itself a skill.
Scanned ==
    /\ Discovered /\ Val(call.out).ok
    /\ EffectiveRoot(call.in.subpath) \notin ManifestDirs(call.in.tree)

(***************************************************************************)
(* C18.  The sequence discover returns never holds two skills of the same  *)
(* manifest name; of several candidate directories declaring one name,     *)
(* the one returned is the first in scan order: the order of the priority  *)
(* directory list, then the enumeration order within a directory.          *)
(***************************************************************************)
C18_FirstOfNameRetained ==
    /\ (Discovered /\ Val(call.out).ok) =>
          \A i, j \in 1..Len(Val(call.out).v) :
              i # j => Val(call.out).v[i].metadata.name
                          # Val(call.out).v[j].metadata.name
    /\ Scanned =>
          LET tree == call.in.tree
              root == EffectiveRoot(call.in.subpath)
          IN \A d \in Candidates(tree, root) :
                (\A e \in Candidates(tree, root) :
                    NameAt(tree, e) = NameAt(tree, d)
                        => e = d \/ Before(tree, root, d, e))
                => \E k \in 1..Len(Val(call.out).v) :
                      Val(call.out).v[k] = SkillAt(tree, d)

\* skills/b, enumerated before skills/a, skills/a and .claude/skills/c all
\* declare "x": the result is the one skill of skills/b.
C18_ThreeDeclareX ==
    /\ Scanned
    /\ LET tree == call.in.tree
       IN /\ {<<"skills", "a">>, <<"skills", "b">>, <<".claude", "skills", "c">>}
                \subseteq Candidates(tree, <<>>)
          /\ NameAt(tree, <<"skills", "a">>) = "x"
          /\ NameAt(tree, <<"skills", "b">>) = "x"
          /\ NameAt(tree, <<".claude", "skills", "c">>) = "x"
          /\ Val(call.out).v = << SkillAt(tree, <<"skills", "b">>) >>

\* The skills of a result that lie in no priority directory below root.
OutsidePriority(tree, root, skills) ==
    { k \in 1..Len(skills) : skills[k].path \notin Candidates(tree, root) }

(***************************************************************************)
(* C19.  When the scan of the priority directories accepts a skill, the    *)
(* recursive search does not run: the result holds no skill from outside   *)
(* the priority directories, and an invalid SKILL.md outside them does     *)
(* not fail the call.                                                      *)
(***************************************************************************)
C19_PriorityScanSuppressesFallback ==
    LET tree == call.in.tree
        root == EffectiveRoot(call.in.subpath)
    IN /\ (Scanned /\ Candidates(tree, root) # {})
          => OutsidePriority(tree, root, Val(call.out).v) = {}
       /\ (/\ Discovered
           /\ root \notin ManifestDirs(tree)
           /\ Candidates(tree, root) # {}
           /\ \A d \in ManifestDirs(tree) \ ValidDirs(tree) :
                 \A i \in 1..Len(SEARCH_DIRS) : ~InPriorityDir(root, d, i))
          => Val(call.out).ok

\* skills/b holds "y" and other/d, outside the priority directories,
\* holds "w": the result is "y" alone.
C19_OtherSkillLeftOut ==
    /\ Scanned
    /\ Candidates(call.in.tree, <<>>) = {<<"skills", "b">>}
    /\ <<"other", "d">> \in ValidDirs(call.in.tree)
    /\ Val(call.out).v = << SkillAt(call.in.tree, <<"skills", "b">>) >>

InvalidDirs(tree) == ManifestDirs(tree) \ ValidDirs(tree)

\* The directories of the tree that are children of a priority directory
\* below root.
PriorityChildren(tree, root) ==
    { tree[k].path : k \in
        { j \in 1..Len(tree) :
            \E i \in 1..Len(SEARCH_DIRS) : InPriorityDir(root, tree[j].path, i) } }

\* The directories the recursive search from root reaches: at most
\* max_depth levels down, through no skipped or hidden directory and
\* through no directory that holds a SKILL.md.
Reached(tree, root) ==
    { tree[k].path : k \in
        { j \in 1..Len(tree) :
            LET d == tree[j].path
            IN /\ IsPrefix(root, d)
               /\ Len(d) - Len(root) <= max_depth
               /\ \A n \in Len(root) + 1 .. Len(d) :
                     d[n] \notin SKIP_DIRS /\ d[n] \notin DotTokens
               /\ \A n \in Len(root) .. Len(d) - 1 :
                     SubSeq(d, 1, n) \notin ManifestDirs(tree) } }

\* The directories in which discover_skills from root looks for a SKILL.md:
\* root; if root has none, the children of the priority directories; if
\* none of those has one either, the directories the recursive search
\* reaches.
Examined(tree, root) ==
    {root}
    \cup (IF root \in ManifestDirs(tree) THEN {}
         ELSE PriorityChildren(tree, root))
    \cup (IF root \in ManifestDirs(tree)
            \/ PriorityChildren(tree, root) \cap ManifestDirs(tree) # {}
         THEN {}
         ELSE Reached(tree, root))

(***************************************************************************)
(* C20.  If a directory that discover examines holds a SKILL.md that       *)
(* fails validation (no opening delimiter, no closing delimiter, a block   *)
(* that does not parse, a missing or empty name or description), the call  *)
(* fails and returns no skills, whatever valid skills the other examined   *)
(* directories hold; and it fails for no other reason.                     *)
(***************************************************************************)
C20_InvalidManifestFailsDiscover ==
    Discovered =>
        LET tree == call.in.tree
            root == EffectiveRoot(call.in.subpath)
        IN Val(call.out).ok
              <=> Examined(tree, root) \cap InvalidDirs(tree) = {}

\* skills/b, enumerated first, is the valid skill "y"; skills/a holds a
\* SKILL.md without description: the call has failed.
C20_ValidThenInvalid ==
    /\ Discovered
    /\ call.in.subpath = None
    /\ <<>> \notin ManifestDirs(call.in.tree)
    /\ call.in.tree[3].path = <<"skills", "b">>
    /\ <<"skills", "b">> \in ValidDirs(call.in.tree)
    /\ <<"skills", "a">> \in InvalidDirs(call.in.tree)
    /\ Val(DirAt(call.in.tree, <<"skills", "a">>).manifest).description = None
    /\ Val(call.out) = Err

\* The patterns of the rules 1 to 6, in the order of the source.
Patterns ==
    << github_tree_path, github_tree, github_repo, gitlab_tree_path, ssh_url,
       shorthand >>

\* Rule k applies to s: its pattern matches somewhere in s; for the
\* shorthand rule, s moreover has no ":" and starts with neither "." nor "/".
Applies(k, s) ==
    /\ captures(Patterns[k], s) # None
    /\ k = 6 => /\ ~Contains(s, ":")
                /\ ~StartsWith(s, DotTokens)
                /\ ~StartsWith(s, {"/"})

\* The first rule that applies to s; 7, the fallback, when none does.
FirstRule(s) ==
    IF \E k \in 1..6 : Applies(k, s)
    THEN CHOOSE k \in 1..6 : Applies(k, s) /\ \A j \in 1..(k - 1) : ~Applies(j, s)
    ELSE 7

\* Capture group n of the match of rule k in s, as an Option.
Group(k, s, n) == Val(captures(Patterns[k], s))[n]

\* The location rule k produces for s.
Produced(k, s) ==
    IF k = 7 THEN GitSource(s, None, None, None, None)
    ELSE [url |-> IF k = 5
                  THEN <<"git@">> \o Val(Group(k, s, 1)) \o <<":">>
                          \o Val(Group(k, s, 2)) \o <<"/">>
                          \o Val(Group(k, s, 3)) \o <<".git">>
                  ELSE HttpsUrl(IF k = 4 THEN "gitlab.com" ELSE "github.com",
                                Val(Group(k, s, 1)), Val(Group(k, s, 2))),
          owner |-> IF k = 5 THEN Group(k, s, 2) ELSE Group(k, s, 1),
          repo |-> IF k = 5 THEN Group(k, s, 3) ELSE Group(k, s, 2),
          ref_ |-> IF k \in {1, 2, 4} THEN Group(k, s, 3) ELSE None,
          subpath |-> IF k \in {1, 4} THEN Group(k, s, 4)
                      ELSE IF k = 6 THEN Group(k, s, 3) ELSE None]

(***************************************************************************)
(* C21.  parse never fails: for every input it returns a location, the     *)
(* one produced by the first of the rules 1 to 7 that applies to the       *)
(* input; an input to which none of the rules 1 to 6 applies yields the    *)
(* whole input as address, with owner, repo, ref and subpath unset.        *)
(***************************************************************************)
C21_FirstRuleDecides ==
    Parsed =>
        /\ Val(call.out).parsed = Produced(FirstRule(call.in), call.in)
        /\ FirstRule(call.in) = 7 =>
              Val(call.out).parsed =
                  [url |-> call.in, owner |-> None, repo |-> None,
                   ref_ |-> None, subpath |-> None]

\* "github.com/o/a/tree/dev/skills/x", to which both rule 1 and the
\* shorthand rule apply, has been parsed by rule 1.
C21_TwoRulesApply ==
    /\ Parsed
    /\ Applies(1, call.in) /\ Applies(6, call.in)
    /\ Val(call.out).parsed.ref_ = Some(<<"dev">>)
    /\ Val(call.out).parsed.owner = Some(<<"o">>)

\* Segments source strings are put together from.
Owners == { <<"o">> }
RepoNames == { <<"a">>, <<"a", ".git">> }
Refs == { <<"dev">> }
Subpaths == { <<"skills", "/", "x">> }
Prefixes == { <<>>, <<"https", ":", "/", "/">> }

(***************************************************************************)
(* C22.  The shorthand owner/repo[/subpath] parses to the address          *)
(* https://github.com/owner/repo.git with owner and repo set, no ref, and  *)
(* as subpath everything after the second segment (unset when there is     *)
(* none); a URL host/owner/repo/tree/ref/subpath parses to the same        *)
(* owner and repo, with ref and subpath the corresponding segments.        *)
(***************************************************************************)
C22_ShorthandAndTreeUrl ==
    Parsed =>
        \A o \in Owners, r \in RepoNames, ref \in Refs, sp \in Subpaths,
           pre \in Prefixes :
            /\ call.in = o \o <<"/">> \o r =>
                  Val(call.out).parsed =
                      [url |-> <<"https", ":", "/", "/", "github.com", "/">>
                                  \o o \o <<"/">> \o r \o <<".git">>,
                       owner |-> Some(o), repo |-> Some(r), ref_ |-> None,
                       subpath |-> None]
            /\ call.in = o \o <<"/">> \o r \o <<"/">> \o sp =>
                  Val(call.out).parsed =
                      [url |-> <<"https", ":", "/", "/", "github.com", "/">>
                                  \o o \o <<"/">> \o r \o <<".git">>,
                       owner |-> Some(o), repo |-> Some(r), ref_ |-> None,
                       subpath |-> Some(sp)]
            /\ call.in = pre \o <<"github.com", "/">> \o o \o <<"/">> \o r
                             \o <<"/", "tree", "/">> \o ref \o <<"/">> \o sp =>
                  Val(call.out).parsed =
                      [url |-> <<"https", ":", "/", "/", "github.com", "/">>
                                  \o o \o <<"/">> \o r \o <<".git">>,
                       owner |-> Some(o), repo |-> Some(r), ref_ |-> Some(ref),
                       subpath |-> Some(sp)]
            /\ call.in = pre \o <<"gitlab.com", "/">> \o o \o <<"/">> \o r
                             \o <<"/", "-", "/", "tree", "/">> \o ref
                             \o <<"/">> \o sp =>
                  /\ Val(call.out).parsed.owner = Some(o)
                  /\ Val(call.out).parsed.repo = Some(r)
                  /\ Val(call.out).parsed.ref_ = Some(ref)
                  /\ Val(call.out).parsed.subpath = Some(sp)

\* "o/a/skills/x" has been parsed: subpath skills/x.
C22_ShorthandWithSubpath ==
    /\ Parsed
    /\ call.in = <<"o", "/", "a", "/", "skills", "/", "x">>
    /\ Val(call.out).parsed.subpath = Some(<<"skills", "/", "x">>)
    /\ Val(call.out).parsed.ref_ = None

\* Invocation p, an add, writes skills.json in this step.
AddSaves(p) == procs[p].pc = "add_loaded" /\ procs'[p].pc = "idle"

(***************************************************************************)
(* C23.  Two invocations in one project directory are not serialized: an   *)
(* add writes the document it loaded, with its own entry, over whatever    *)
(* the file holds by then, so that every entry another invocation wrote    *)
(* in between is gone; there is an interleaving after which a name added   *)
(* by one invocation is absent from the persisted Declared store.          *)
(***************************************************************************)
C23_LastWriterWins ==
    [][\A p \in Procs :
          AddSaves(p) =>
              \A i \in 1..Len(skills_json'.skills) :
                  \/ skills_json'.skills[i].name = Val(procs[p].name)
                  \/ HasSkill(procs[p].config.skills,
                              skills_json'.skills[i].name)]_vars

\* Invocation 1 has added x and invocation 2 has added y, each in its only
\* run, both have ended, and skills.json declares y alone.
C23_LostAdd ==
    /\ \A p \in Procs : procs[p].pc = "idle" /\ procs[p].runs = 1
                        /\ procs[p].cmd = "add"
    /\ procs[1].name = Some("x") /\ procs[2].name = Some("y")
    /\ HasSkill(skills_json.skills, "y")
    /\ ~HasSkill(skills_json.skills, "x")

\* Name n has no Resolved entry before this step and has one after it.
Acquires(n) == skills_lock[n] = None /\ skills_lock'[n] # None

(***************************************************************************)
(* C24.  A name acquires a Resolved entry only by install, together with   *)
(* its installed copies: no other command gives a Resolved entry to a      *)
(* name that has none, so Resolved-without-Installed is not reached by     *)
(* the commands.                                                           *)
(***************************************************************************)
C24_ResolvedOnlyByInstall ==
    [][\A n \in Names : Acquires(n) => run.cmd = "install"]_vars

\* A save and load of skills.json, of skills-lock.json, has been made.
ConfigLoaded == call.fn = "config" /\ call.out # None
LockLoaded == call.fn = "lock" /\ call.out # None

\* The member of the document that holds the entries.
Written(key) == Val(Get(Val(call.out).doc, key))

(***************************************************************************)
(* C25.  Saving a value of skills.json or skills-lock.json and loading     *)
(* the written document gives the value back: every mandatory field keeps  *)
(* its value, and an optional field that is unset has no member in the     *)
(* document and is unset after the load.                                   *)
(***************************************************************************)
C25_SaveLoadRoundTrip ==
    /\ ConfigLoaded =>
          /\ Val(call.out).loaded = Ok(call.in)
          /\ \A k \in 1..Len(call.in.skills) :
                /\ call.in.skills[k].ref_ = None
                      <=> Get(Written("skills")[k], "ref") = None
                /\ call.in.skills[k].path = None
                      <=> Get(Written("skills")[k], "path") = None
          /\ \A k \in 1..Len(call.in.marketplaces) :
                call.in.marketplaces[k].ref_ = None
                    <=> Get(Written("marketplaces")[k], "ref_") = None
    /\ LockLoaded =>
          /\ Val(call.out).loaded = Ok(call.in.lock)
          /\ \A n \in Names :
                call.in.lock[n] # None =>
                    LET o == Val(Get(Written("skills"), n))
                    IN /\ Val(call.in.lock[n]).description = None
                             <=> Get(o, "description") = None
                       /\ Val(call.in.lock[n]).marketplace = None
                             <=> Get(o, "marketplace") = None

\* skills.json with an entry that has a ref and no path, and one with a
\* path and no ref, has been saved and loaded.
C25_MixedOptionals ==
    /\ ConfigLoaded
    /\ Len(call.in.skills) = 2
    /\ call.in.skills[1].ref_ # None /\ call.in.skills[1].path = None
    /\ call.in.skills[2].ref_ = None /\ call.in.skills[2].path # None
    /\ Len(Written("skills")[1]) = 3
    /\ Val(call.out).loaded = Ok(call.in)

\* The marketplace install is at, and whether it has enabled names.
ThisMkt == run.config.marketplaces[run.j]

HasEnabled(config, k) == config.marketplaces[k].enabled # <<>>

\* Name n is enabled in marketplace k of the config.
EnabledIn(config, k, n) ==
    \E m \in 1..Len(config.marketplaces[k].enabled) :
        config.marketplaces[k].enabled[m] = n

\* A step of install itself (upstream does not move in it).
InstallStep == run.cmd = "install" /\ head' = head

\* install ends successfully in this step.
InstallSucceeds ==
    InstallStep /\ run.pc = "i_save" /\ run'.pc = "idle" /\ last'.ok

\* Marketplace k is the last one that enables n.
LastToEnable(config, k, n) ==
    /\ EnabledIn(config, k, n)
    /\ \A k2 \in (k + 1)..Len(config.marketplaces) : ~EnabledIn(config, k2, n)

\* One clone per marketplace with enabled names, none for the others: the
\* clone is taken for a marketplace with enabled names only; after it
\* install fails, or goes on to the next marketplace with enabled names,
\* or to the save when there is none.
OneCloneEach ==
    /\ (InstallStep /\ run.pc = "i_mkt") =>
          /\ HasEnabled(run.config, run.j)
          /\ \/ run'.pc = "idle" /\ ~last'.ok
             \/ run'.pc = "i_mkt_cloned" /\ run'.j = run.j
                  /\ run'.cloned # None
    /\ (InstallStep /\ run.pc = "i_mkt_cloned") =>
          \/ run'.pc = "idle" /\ ~last'.ok
          \/ /\ run'.pc = "i_mkt" /\ run'.j > run.j
             /\ HasEnabled(run.config, run'.j)
             /\ \A k \in (run.j + 1)..(run'.j - 1) : ~HasEnabled(run.config, k)
          \/ /\ run'.pc = "i_save"
             /\ \A k \in (run.j + 1)..Len(run.config.marketplaces) :
                   ~HasEnabled(run.config, k)

\* When install is through with a marketplace, each of its enabled names
\* has the lock entry of the one snapshot: its commit, the marketplace's
\* address and name.
AllFromOneSnapshot ==
    (InstallStep /\ run.pc = "i_mkt_cloned" /\ run'.pc # "idle") =>
        \A n \in Names :
            EnabledIn(run.config, run.j, n) =>
                /\ run'.lock[n] # None
                /\ Val(run'.lock[n]).sha = Val(run.cloned).sha
                /\ Val(run'.lock[n]).source = run.git_source.url
                /\ Val(run'.lock[n]).marketplace = Some(ThisMkt.name)

(***************************************************************************)
(* C26.  In install, each marketplace with enabled names causes exactly    *)
(* one clone, from which all its enabled names are resolved, and a         *)
(* marketplace without enabled names causes none; after a successful       *)
(* install the enabled names of a marketplace that no later marketplace    *)
(* enables too carry one commit id and the name of that marketplace.       *)
(***************************************************************************)
C26_OneSnapshotPerMarketplace ==
    [][/\ OneCloneEach
       /\ AllFromOneSnapshot
       /\ InstallSucceeds =>
             \A k \in 1..Len(run.config.marketplaces) :
                 \A n, n2 \in Names :
                     (LastToEnable(run.config, k, n)
                        /\ LastToEnable(run.config, k, n2)) =>
                         /\ skills_lock'[n] # None
                         /\ Val(skills_lock'[n]).marketplace =
                                Some(run.config.marketplaces[k].name)
                         /\ Val(skills_lock'[n]).sha =
                                Val(skills_lock'[n2]).sha]_vars

\* The statement for every enabled name of every marketplace.
C26_EveryEnabledName ==
    [][InstallSucceeds =>
          \A k \in 1..Len(run.config.marketplaces) :
              \A n, n2 \in Names :
                  (EnabledIn(run.config, k, n)
                     /\ EnabledIn(run.config, k, n2)) =>
                      /\ skills_lock'[n] # None
                      /\ Val(skills_lock'[n]).marketplace =
                             Some(run.config.marketplaces[k].name)
                      /\ Val(skills_lock'[n]).sha =
                             Val(skills_lock'[n2]).sha]_vars

\* install has succeeded on marketplace "a" enabling x and y and
\* marketplace "b", of another repository, enabling x: y is of "a", x of
\* "b", with different commits.
C26_TwoMarketplacesSucceeded ==
    /\ run.pc = "idle" /\ last.cmd = "install" /\ last.ok
    /\ Len(skills_json.marketplaces) = 2
    /\ skills_json.marketplaces[1].enabled = <<"x", "y">>
    /\ skills_json.marketplaces[2].enabled = <<"x">>
    /\ skills_lock["x"] # None /\ skills_lock["y"] # None
    /\ Val(skills_lock["y"]).marketplace = Some("a")
    /\ Val(skills_lock["x"]).marketplace = Some("b")
    /\ Val(skills_lock["x"]).sha # Val(skills_lock["y"]).sha

(***************************************************************************)
(* update: what the comparison of commit ids decides (update.rs 32-65,     *)
(* 80-104)                                                                 *)
(***************************************************************************)
\* A step of the update invocation after which it goes on (it did not end).
UpdateGoesOn == run.cmd = "update" /\ run'.cmd = "update" /\ run' # run

\* The upstream commit id of a Declared source string, as a lookup made in
\* this state returns it.
Upstream(source) ==
    LET git_source == parse(source)
    IN BranchHead(head, Val(RepoOf(git_source.url)), git_source.ref_)

\* The lock entry of name n exists and carries commit id sha.
SameCommit(lock, n, sha) == lock[n] # None /\ Val(lock[n]).sha = sha

\* The name update is examining in a clone or write position.
UpdateExamines ==
    IF run.pc \in {"u_skill", "u_skill_clone", "u_skill_cloned"}
    THEN run.config.skills[run.i].name
    ELSE run.config.marketplaces[run.j].enabled[run.i]

\* The lookup for Declared skill i: an entry at the looked-up commit is
\* passed over with the lock untouched, any other goes to the clone.
SkillCompared ==
    (run.pc = "u_skill" /\ UpdateGoesOn) =>
        LET n == run.config.skills[run.i].name
            sha == Val(Upstream(run.config.skills[run.i].source))
        IN IF SameCommit(run.lock, n, sha)
           THEN /\ run'.pc # "u_skill_clone"
                /\ run'.lock = run.lock
                /\ run'.cloned = None
           ELSE /\ run'.pc = "u_skill_clone"
                /\ run'.i = run.i
                /\ run'.new_sha = Some(sha)
                /\ run'.lock = run.lock

\* The enabled names of marketplace j from index k on: update stops at the
\* first selected name whose entry is not at new_sha and passes over every
\* selected name before it.
MktCompared ==
    (run.pc \in {"u_mkt", "u_mkt_cloned"} /\ UpdateGoesOn) =>
        LET enabled == run.config.marketplaces[run.j].enabled
            k == IF run.pc = "u_mkt" THEN 1 ELSE run.i + 1
            sha == Val(run'.new_sha)
            stop == IF run'.pc = "u_mkt_name" /\ run'.j = run.j
                    THEN run'.i ELSE Len(enabled) + 1
        IN /\ run'.pc \in {"u_mkt_name", "u_mkt", "u_save"}
           /\ \A m \in k..Len(enabled) :
                 Wanted(run.arg, enabled[m]) =>
                    /\ m < stop => SameCommit(run'.lock, enabled[m], sha)
                    /\ m = stop => ~SameCommit(run'.lock, enabled[m], sha)
           /\ run.pc = "u_mkt" =>
                 /\ run'.lock = run.lock
                 /\ run'.cloned = None
                 /\ sha = Val(Upstream(run.config.marketplaces[run.j].source))

\* A clone position is followed by the snapshot, and the write after it
\* replaces the entry of the examined name and no other.
ClonedAndOverwritten ==
    /\ (run.pc \in {"u_skill_clone", "u_mkt_name"} /\ UpdateGoesOn) =>
          /\ ~SameCommit(run.lock, UpdateExamines, Val(run.new_sha))
          /\ run'.cloned # None
          /\ run'.lock = run.lock
    /\ (run.pc \in {"u_skill_cloned", "u_mkt_cloned"} /\ UpdateGoesOn) =>
          LET n == UpdateExamines
              entry == Val(run'.lock[n])
              skill == Val(find(discover(Val(run.cloned).sha,
                                    IF run.pc = "u_skill_cloned"
                                    THEN run.config.skills[run.i].path
                                    ELSE None).v, n))
          IN /\ run'.lock[n] # None
             /\ entry.sha = Val(run.new_sha)
             /\ entry.path = skill.relative_path
             /\ entry.description = Some(skill.metadata.description)
             /\ entry.marketplace =
                    (IF run.pc = "u_skill_cloned" THEN None
                     ELSE Some(run.config.marketplaces[run.j].name))
             /\ \A o \in Names \ {n} : run'.lock[o] = run.lock[o]

NamedLookup ==
    /\ run.cmd = "update"
    /\ run.arg # None
    /\ run.pc \in {"u_skill", "u_mkt"}
    /\ run' # run

\* The source at the lookup position offers the name given to update.
OffersName ==
    IF run.pc = "u_skill"
    THEN run.config.skills[run.i].name = Val(run.arg)
    ELSE \E m \in 1..Len(run.config.marketplaces[run.j].enabled) :
            run.config.marketplaces[run.j].enabled[m] = Val(run.arg)

\* C28: update(name) looks up a commit only for the Declared entries and
\* the marketplaces that contain the name, so no lookup of another source
\* can make it fail, and it changes no lock entry but the one of the name.
C28_NamedUpdateLooksUpOnlyItsSources ==
    [][/\ NamedLookup => OffersName
       /\ (run.cmd = "update" /\ run.arg # None) =>
             \A o \in Names \ {Val(run.arg)} :
                /\ run'.cmd = "update" => run'.lock[o] = run.lock[o]
                /\ skills_lock'[o] = skills_lock[o]]_vars

(***************************************************************************)
(* Which store each command writes (add.rs 48-74, install.rs 21-22, 115,   *)
(* update.rs 12-13, 108)                                                   *)
(***************************************************************************)
\* This step belongs to an invocation of command c: the invocation is under
\* way before or after it, or it started and ended within the step.
StepOfCommand(c) ==
    \/ run.cmd = c
    \/ run'.cmd = c
    \/ cmds' # cmds /\ run'.cmd = "idle" /\ last'.cmd = c

\* C29: no step of add changes skills.lock or any install target, and no
\* step of install or of update changes skills.json.
C29_CommandsKeepToTheirStores ==
    [][/\ StepOfCommand("add") =>
             skills_lock' = skills_lock /\ installed' = installed
       /\ (StepOfCommand("install") \/ StepOfCommand("update")) =>
             skills_json' = skills_json]_vars

\* add declared y after an install had resolved and copied x: y is
\* Declared without a lock entry, x has its entry and its copies.
C29_AddAfterInstall ==
    /\ last = [cmd |-> "add", arg |-> Some("y"), ok |-> TRUE]
    /\ HasSkill(skills_json.skills, "y")
    /\ skills_lock["y"] = None
    /\ skills_lock["x"] # None
    /\ \A t \in Targets : installed[t]["x"] # None

\* C30: add with no name, when more than one skill is discovered, ends as
\* an error (non-zero exit status), like every other error kind.
C30_AmbiguousAddFails ==
    [][AddAmbiguous => last'.cmd = "add" /\ ~last'.ok]_vars

(***************************************************************************)
(* The recursive search of discover (skill.rs 71-74, 100-136)              *)
(***************************************************************************)
\* discover_skills has returned skills, its start directory holds no
\* SKILL.md and no child of a priority directory is a valid skill: the
\* result is that of the recursive search.
FallbackRan ==
    /\ Scanned
    /\ Candidates(call.in.tree, EffectiveRoot(call.in.subpath)) = {}

\* The valid skill directories at most 5 levels below root whose path
\* below root has no hidden and no deny-listed name and no valid skill
\* directory as a proper ancestor from root down.
Eligible(tree, root) ==
    { d \in ValidDirs(tree) :
        /\ IsPrefix(root, d)
        /\ Len(d) - Len(root) <= 5
        /\ \A n \in Len(root) + 1 .. Len(d) :
              d[n] \notin SKIP_DIRS /\ d[n] \notin DotTokens
        /\ \A n \in Len(root) .. Len(d) - 1 :
              SubSeq(d, 1, n) \notin ValidDirs(tree) }

\* The position of directory d in the enumeration of the tree.
Position(tree, d) == CHOOSE i \in 1..Len(tree) : tree[i].path = d

ReturnedPaths == { Val(call.out).v[k].path : k \in 1..Len(Val(call.out).v) }

\* C31 as stated: when the priority scan finds nothing, discover returns
\* exactly the valid skill directories at most 5 levels below the effective
\* root that are reached through no hidden or deny-listed directory and
\* have no valid skill directory above them.
C31_FallbackReturnsEveryEligible ==
    FallbackRan =>
        /\ ReturnedPaths
             = Eligible(call.in.tree, EffectiveRoot(call.in.subpath))
        /\ Len(Val(call.out).v) = Cardinality(ReturnedPaths)

\* C31, amended: when the priority scan finds nothing, every skill discover
\* returns is one of those directories, no manifest name is returned
\* twice, and each of those directories is returned unless a directory of
\* the same manifest name comes before it in the descent; so no skill 6
\* or more levels down is returned.
C31_FallbackReturnsFirstOfEachName ==
    FallbackRan =>
        LET tree == call.in.tree
            root == EffectiveRoot(call.in.subpath)
            skills == Val(call.out).v
        IN /\ \A k \in 1..Len(skills) :
                 /\ skills[k].path \in Eligible(tree, root)
                 /\ skills[k] = SkillAt(tree, skills[k].path)
           /\ \A k, m \in 1..Len(skills) :
                 skills[k].metadata.name = skills[m].metadata.name => k = m
           /\ \A d \in Eligible(tree, root) :
                 \E k \in 1..Len(skills) :
                    /\ skills[k].metadata.name = NameAt(tree, d)
                    /\ Position(tree, skills[k].path) <= Position(tree, d)

\* The search from the snapshot root returned pkg/e alone although the
\* tree holds valid skills 6 levels down, in .hidden and in node_modules.
C31_DeepHiddenAndDeniedLeftOut ==
    /\ FallbackRan
    /\ call.in.subpath = None
    /\ {<<"pkg", "e">>, <<"d1", "d2", "d3", "d4", "d5", "d6">>,
        <<".hidden">>, <<".hidden", "h">>, <<"node_modules", "m">>}
          \subseteq ValidDirs(call.in.tree)
    /\ Val(call.out).v = <<SkillAt(call.in.tree, <<"pkg", "e">>)>>

\* None of the rules 1 to 5 matches s.
NoUrlRule(s) == \A k \in 1..5 : captures(Patterns[k], s) = None

\* s contains ":" or starts with "." or "/".
NotShorthand(s) ==
    Contains(s, ":") \/ StartsWith(s, DotTokens) \/ StartsWith(s, {"/"})

\* C32: an input that none of the rules 1 to 5 matches and that contains
\* ":" or starts with "." or "/" is returned by parse as an opaque address
\* equal to the input, with owner, repo, ref and subpath unset.
C32_GuardedInputStaysOpaque ==
    (Parsed /\ NoUrlRule(call.in) /\ NotShorthand(call.in)) =>
        Val(call.out).parsed =
            [url |-> call.in, owner |-> None, repo |-> None,
             ref_ |-> None, subpath |-> None]

\* ".hidden/a" or "o/a:b", which the shorthand pattern matches, has been
\* parsed to an address equal to the input.
C32_ShorthandPatternRefused ==
    /\ Parsed
    /\ NoUrlRule(call.in) /\ NotShorthand(call.in)
    /\ captures(shorthand, call.in) # None
    /\ Val(call.out).parsed.url = call.in
    /\ Val(call.out).parsed.owner = None

(***************************************************************************)
(* The order of the entries and the snapshots within one invocation        *)
(* (install.rs 33-112, update.rs 23-106)                                   *)
(***************************************************************************)
\* Where an install or update invocation stands: the Declared skills come
\* first, by index, then the marketplaces, by index and, in update, by the
\* index of the enabled name, then the save.
Place(r) ==
    IF r.pc \in {"i_skill", "i_skill_cloned", "u_skill", "u_skill_clone",
                 "u_skill_cloned"}
    THEN <<1, r.i, 0>>
    ELSE IF r.pc \in {"i_mkt", "i_mkt_cloned", "u_mkt", "u_mkt_name",
                      "u_mkt_cloned"}
    THEN <<2, r.j, r.i>>
    ELSE <<3, 0, 0>>

\* Lexicographic order on places.
PlaceLeq(a, b) ==
    \/ a[1] < b[1]
    \/ a[1] = b[1] /\ a[2] < b[2]
    \/ a[1] = b[1] /\ a[2] = b[2] /\ a[3] <= b[3]

\* A step inside one install or update invocation.
LoopStep ==
    /\ run.cmd \in {"install", "update"}
    /\ run'.cmd = run.cmd
    /\ run' # run

\* C33: within an install or update invocation the entries are taken one
\* after another, Declared skills in store order and then marketplaces in
\* store order, never going back; a snapshot is acquired only while none
\* is held, and the one of an entry is gone when the next entry is reached.
C33_OneEntryOneSnapshotAtATime ==
    [][LoopStep =>
          /\ PlaceLeq(Place(run), Place(run'))
          /\ run.cloned # None => Place(run') # Place(run)
          /\ run'.cloned # None => run.cloned = None
          /\ Place(run') # Place(run) => run'.cloned = None]_vars

\* install holds the snapshot for its second Declared skill; the first
\* one has its lock entry in the invocation's lock already.
C33_SecondEntrySnapshot ==
    /\ run.cmd = "install"
    /\ run.pc = "i_skill_cloned"
    /\ run.i = 2
    /\ run.cloned # None
    /\ run.lock[run.config.skills[1].name] # skills_lock[run.config.skills[1].name]

(***************************************************************************)
(* The ref of an entry in install and update (install.rs 40-48, 83-84,     *)
(* update.rs 32-33, 70-71, add.rs 53-62)                                   *)
(***************************************************************************)
\* The head of ref `ref` of the repository a Declared source names.
RefHead(source, ref) ==
    BranchHead(head, Val(RepoOf(parse(source).url)), ref)

\* C34: for a Declared skill and for a marketplace that carries a ref, the
\* commit install and update record in the lock entry of the name is the
\* head of that ref.
C34_RecordedCommitIsHeadOfRef ==
    /\ \A i \in 1..Len(skills_json.skills) :
          LET e == skills_json.skills[i]
          IN (e.ref_ # None /\ skills_lock[e.name] # None
              /\ Val(skills_lock[e.name]).marketplace = None) =>
                 Some(Val(skills_lock[e.name]).sha) = RefHead(e.source, e.ref_)
    /\ \A j \in 1..Len(skills_json.marketplaces) :
          LET m == skills_json.marketplaces[j]
          IN \A k \in 1..Len(m.enabled) :
                (m.ref_ # None /\ skills_lock[m.enabled[k]] # None
                 /\ Val(skills_lock[m.enabled[k]]).marketplace = Some(m.name))
                => Some(Val(skills_lock[m.enabled[k]]).sha)
                      = RefHead(m.source, m.ref_)

(***************************************************************************)
(* Resolved entries and their declarations (remove.rs 23-61, install.rs    *)
(* 57-66, update.rs 55-64)                                                 *)
(***************************************************************************)
\* Name n is a Declared skill or an enabled name of some marketplace.
DeclaredOrEnabled(n) ==
    \/ HasSkill(skills_json.skills, n)
    \/ \E j \in 1..Len(skills_json.marketplaces) :
          \E k \in 1..Len(skills_json.marketplaces[j].enabled) :
              skills_json.marketplaces[j].enabled[k] = n

\* C35: after any sequence of add, install, update and remove commands
\* that the environment lets run to their end, every name with an entry in
\* skills-lock.json is a Declared skill or an enabled name of a
\* marketplace in skills.json.
C35_NoOrphanResolved ==
    \A n \in Names : skills_lock[n] # None => DeclaredOrEnabled(n)

\* remove x has succeeded after an install had resolved x and y: x has
\* left both documents, y is in both.
C35_RemovedOneOfTwo ==
    /\ faults = 0
    /\ last = [cmd |-> "remove", arg |-> Some("x"), ok |-> TRUE]
    /\ skills_lock["x"] = None /\ ~DeclaredOrEnabled("x")
    /\ skills_lock["y"] # None /\ DeclaredOrEnabled("y")
    /\ \E t \in Targets : installed[t]["y"] # None

(***************************************************************************)
(* The interactive front-end (tui/app.rs, tui/mod.rs).  Each action is one *)
(* key event handled by run_app in the App state it names.  Indexes count  *)
(* from 0 as in the code; Vec::get(i) of a sequence s is s[i + 1] when     *)
(* i < Len(s).                                                             *)
(***************************************************************************)
\* App::new on the two documents of the project directory.
new(config, lock) ==
    [NoApp EXCEPT !.state = "Main", !.config = config, !.lock = lock]

RECURSIVE enabled_names(_)
\* The enabled names of the marketplaces, in order.
enabled_names(marketplaces) ==
    IF marketplaces = <<>> THEN <<>>
    ELSE Head(marketplaces).enabled \o enabled_names(Tail(marketplaces))

\* App::skills_list: the Declared skills, then the enabled names of every
\* marketplace; `installed` is whether the lock holds the name.
skills_list(a) ==
    LET names == [k \in 1..Len(a.config.skills) |-> a.config.skills[k].name]
                 \o enabled_names(a.config.marketplaces)
    IN [k \in 1..Len(names) |->
           [name |-> names[k], installed |-> a.lock[names[k]] # None]]

\* (selected + 1) % len when len > 0.
next_index(selected, len) ==
    IF len > 0 THEN (selected + 1) % len ELSE selected

\* selected.checked_sub(1).unwrap_or(len - 1) when len > 0.
previous_index(selected, len) ==
    IF len > 0 THEN (IF selected >= 1 THEN selected - 1 ELSE len - 1)
    ELSE selected

\* The selection after a removal: the last index when it fell off the end
\* of a list that is not empty.
adjust_index(selected, new_len) ==
    IF selected >= new_len /\ new_len > 0 THEN new_len - 1 ELSE selected

\* The event loop waits for a key in App state s.
Awaits(s) == app.state = s /\ app.busy = "none"

\* Everything but the App is left alone.
OnlyApp ==
    UNCHANGED <<head, skills_json, skills_lock, installed, run, last, cmds,
                faults, call, procs>>

\* The most handlers that write a document or run a command, plus
\* environment failures, in one session of the front-end.
MaxWrites == 2

\* A handler that writes a document starts: it counts as a command.
Writes ==
    /\ cmds + faults < MaxWrites
    /\ cmds' = cmds + 1

\* 'q' in Main: run_app returns.
quit ==
    /\ Awaits("Main")
    /\ app' = [app EXCEPT !.state = "Exited"]
    /\ OnlyApp

\* 'a' and 'm' in Main, 'a' in Marketplaces: the dialog or the list opens.
open(from, to) ==
    /\ Awaits(from)
    /\ app' = [app EXCEPT !.state = to]
    /\ OnlyApp

\* Esc: back to the state the current one was opened from.
esc ==
    /\ app.busy = "none"
    /\ app.state \in {"AddSkill", "Marketplaces", "AddMarketplace",
                      "MarketplaceSkills"}
    /\ app' = [app EXCEPT !.state =
                  IF app.state \in {"AddSkill", "Marketplaces"} THEN "Main"
                  ELSE "Marketplaces"]
    /\ OnlyApp

\* Up or 'k' in Main.
previous_skill ==
    /\ Awaits("Main")
    /\ app' = [app EXCEPT !.selected_skill =
                  previous_index(@, Len(skills_list(app)))]
    /\ OnlyApp

\* Down or 'j' in Main.
next_skill ==
    /\ Awaits("Main")
    /\ app' = [app EXCEPT !.selected_skill =
                  next_index(@, Len(skills_list(app)))]
    /\ OnlyApp

\* Enter or space in Main: only a hint is shown.
toggle_skill ==
    /\ Awaits("Main")
    /\ UNCHANGED vars

\* Up or 'k' in Marketplaces.
previous_marketplace ==
    /\ Awaits("Marketplaces")
    /\ app' = [app EXCEPT !.selected_marketplace =
                  previous_index(@, Len(app.config.marketplaces))]
    /\ OnlyApp

\* Down or 'j' in Marketplaces.
next_marketplace ==
    /\ Awaits("Marketplaces")
    /\ app' = [app EXCEPT !.selected_marketplace =
                  next_index(@, Len(app.config.marketplaces))]
    /\ OnlyApp

\* Up or 'k' in MarketplaceSkills.
previous_marketplace_skill ==
    /\ Awaits("MarketplaceSkills")
    /\ app' = [app EXCEPT !.selected_marketplace_skill =
                  previous_index(@, Len(app.marketplace_available_skills))]
    /\ OnlyApp

\* Down or 'j' in MarketplaceSkills.
next_marketplace_skill ==
    /\ Awaits("MarketplaceSkills")
    /\ app' = [app EXCEPT !.selected_marketplace_skill =
                  next_index(@, Len(app.marketplace_available_skills))]
    /\ OnlyApp

\* Enter in Marketplaces: the selected marketplace is opened; the skills it
\* offers are taken to be the enabled ones.
enter_marketplace ==
    /\ Awaits("Marketplaces")
    /\ app' = IF app.selected_marketplace < Len(app.config.marketplaces)
              THEN LET marketplace ==
                          app.config.marketplaces[app.selected_marketplace + 1]
                   IN [app EXCEPT
                          !.current_marketplace = Some(marketplace.name),
                          !.state = "MarketplaceSkills",
                          !.selected_marketplace_skill = 0,
                          !.marketplace_available_skills = marketplace.enabled]
              ELSE app
    /\ OnlyApp

\* What the user types into the add dialogs, token by token (a token
\* stands for the Char key events of its characters).
TuiInputs == { <<"o", "/", "a">>, <<"o", "/", "b">>, <<"o", "/", "My-Mkt">> }

Typed(s) ==
    \E t \in TuiInputs : Len(s) <= Len(t) /\ SubSeq(t, 1, Len(s)) = s

\* Char keys in a dialog: input.push.
char(c) ==
    /\ app.busy = "none"
    /\ app.state \in {"AddSkill", "AddMarketplace"}
    /\ Typed(Append(app.input, c))
    /\ app' = [app EXCEPT !.input = Append(@, c)]
    /\ OnlyApp

\* Backspace in a dialog: input.pop.
backspace ==
    /\ app.busy = "none"
    /\ app.state \in {"AddSkill", "AddMarketplace"}
    /\ app' = [app EXCEPT !.input =
                  IF @ = <<>> THEN <<>> ELSE SubSeq(@, 1, Len(@) - 1)]
    /\ OnlyApp

\* 'd' or Delete in Main.  The selected name leaves the App's config and
\* lock, which are saved; no install target is touched.  io is "ok" or the
\* save that fails (the error ends run_app).
remove_selected_skill(io) ==
    /\ Awaits("Main")
    /\ LET skills == skills_list(app)
       IN IF app.selected_skill >= Len(skills)
          THEN UNCHANGED vars
          ELSE LET name == skills[app.selected_skill + 1].name
                   OtherSkill(e) == e.name # name
                   OtherName(n) == n # name
                   config ==
                       [skills |-> SelectSeq(app.config.skills, OtherSkill),
                        marketplaces |->
                            [k \in 1..Len(app.config.marketplaces) |->
                                [app.config.marketplaces[k] EXCEPT
                                    !.enabled = SelectSeq(@, OtherName)]]]
                   lock == [app.lock EXCEPT ![name] = None]
                   removed == [app EXCEPT !.config = config, !.lock = lock]
               IN /\ Writes
                  /\ io = "ok" \/ MayFail
                  /\ Fault(io # "ok")
                  /\ skills_json' = IF io = "save_config" THEN skills_json
                                    ELSE config
                  /\ skills_lock' = IF io = "ok" THEN lock ELSE skills_lock
                  /\ app' = IF io # "ok"
                            THEN [removed EXCEPT !.state = "Exited"]
                            ELSE [removed EXCEPT
                                     !.selected_skill =
                                         adjust_index(@,
                                             Len(skills_list(removed)))]
                  /\ UNCHANGED <<head, installed, run, last, call, procs>>

\* add_skill_from_input once the skills are discovered: the first one is
\* declared unless its name is declared already, and the config is saved.
add_first_skill(git_source, skills, io) ==
    LET adding == [app EXCEPT !.input = <<>>]
    IN IF ~skills.ok
       THEN /\ io = "ok"
            /\ app' = [adding EXCEPT !.state = "Exited"]
            /\ UNCHANGED skills_json
       ELSE IF skills.v = <<>>
       THEN /\ io = "ok"
            /\ app' = [adding EXCEPT !.state = "Main"]
            /\ UNCHANGED skills_json
       ELSE LET skill == skills.v[1]
                spec == SkillSpec(skill.metadata.name, canonical(git_source),
                                  git_source.ref_,
                                  IF skill.relative_path = <<>> THEN None
                                  ELSE Some(skill.relative_path))
                config == IF HasSkill(app.config.skills, spec.name)
                          THEN app.config
                          ELSE [app.config EXCEPT !.skills = Append(@, spec)]
            IN /\ skills_json' = IF io = "ok" THEN config ELSE skills_json
               /\ app' = [adding EXCEPT
                             !.config = config,
                             !.state = IF io = "ok" THEN "Main" ELSE "Exited"]

\* add_skill_from_input once the source is parsed: the clone and the
\* discovery in the snapshot.
add_parsed_skill(git_source, net_ok, io) ==
    add_first_skill(git_source,
                    IF clone(git_source, head, net_ok).ok
                    THEN discover(clone(git_source, head, net_ok).v.sha,
                                  git_source.subpath)
                    ELSE Err,
                    io)

\* Enter in AddSkill.  The first discovered skill is declared unless its
\* name is declared already; the dialog closes.  An error of the clone, of
\* the discovery or of the save ends run_app.
add_skill_from_input(net_ok, io) ==
    /\ Awaits("AddSkill")
    /\ IF app.input = <<>>
       THEN /\ net_ok /\ io = "ok"
            /\ app' = [app EXCEPT !.state = "Main"]
            /\ OnlyApp
       ELSE /\ Writes
            /\ (net_ok /\ io = "ok") \/ MayFail
            /\ Fault(~net_ok \/ io # "ok")
            /\ add_parsed_skill(parse(app.input), net_ok, io)
            /\ UNCHANGED <<head, skills_lock, installed, run, last, call,
                           procs>>

\* 'i' and 'u' in Main: install_skills and update_skills hand over to the
\* command (install::run, update::run(None)), whose steps follow.
command_asked(cmd) ==
    /\ Awaits("Main")
    /\ cmds + faults < MaxWrites
    /\ app' = [app EXCEPT !.busy = cmd, !.mark = cmds]
    /\ OnlyApp

\* The command the App awaits has not started yet.
Asked(cmd) == app.busy = cmd /\ cmds = app.mark

\* The awaited command has returned: the lock is read again, or the error
\* ends run_app.
command_returned ==
    /\ app.busy # "none"
    /\ cmds > app.mark
    /\ run.pc = "idle"
    /\ app' = IF last.ok
              THEN [app EXCEPT !.busy = "none", !.mark = 0,
                               !.lock = skills_lock]
              ELSE [app EXCEPT !.busy = "none", !.mark = 0,
                               !.state = "Exited"]
    /\ OnlyApp

RECURSIVE concat(_)
\* The string of a token sequence.
concat(s) == IF s = <<>> THEN "" ELSE Head(s) \o concat(Tail(s))

\* str::to_lowercase then replace('-', "_"), token by token.
lower_underscore(t) == IF t = "My-Mkt" THEN "my_mkt" ELSE t

\* The name add_marketplace_from_input derives from the repository.
marketplace_name(git_source) ==
    IF git_source.repo = None THEN "marketplace"
    ELSE concat([k \in 1..Len(Val(git_source.repo)) |->
                    lower_underscore(Val(git_source.repo)[k])])

\* Enter in AddMarketplace: a marketplace named after the repository, with
\* nothing enabled, is registered unless the name is taken.
add_marketplace_from_input(io) ==
    /\ Awaits("AddMarketplace")
    /\ IF app.input = <<>>
       THEN /\ io = "ok"
            /\ app' = [app EXCEPT !.state = "Marketplaces"]
            /\ OnlyApp
       ELSE LET git_source == parse(app.input)
                name == marketplace_name(git_source)
                config == [app.config EXCEPT !.marketplaces =
                              Append(@, Marketplace(name,
                                            canonical(git_source),
                                            git_source.ref_, <<>>))]
            IN IF HasSkill(app.config.marketplaces, name)
               THEN /\ io = "ok"
                    /\ app' = [app EXCEPT !.input = <<>>,
                                          !.state = "Marketplaces"]
                    /\ OnlyApp
               ELSE /\ Writes
                    /\ io = "ok" \/ MayFail
                    /\ Fault(io # "ok")
                    /\ skills_json' = IF io = "ok" THEN config
                                      ELSE skills_json
                    /\ app' = IF io = "ok"
                              THEN [app EXCEPT !.input = <<>>,
                                               !.config = config,
                                               !.state = "Marketplaces"]
                              ELSE [app EXCEPT !.input = <<>>,
                                               !.config = config,
                                               !.state = "Exited"]
                    /\ UNCHANGED <<head, skills_lock, installed, run, last,
                                   call, procs>>

RECURSIVE unlock(_, _)
\* lock.skills.remove for each of the names.
unlock(lock, names) ==
    IF names = <<>> THEN lock
    ELSE unlock([lock EXCEPT ![Head(names)] = None], Tail(names))

\* 'd' or Delete in Marketplaces: the selected marketplace leaves the
\* config and its enabled names leave the lock; both are saved.
remove_selected_marketplace(io) ==
    /\ Awaits("Marketplaces")
    /\ IF app.selected_marketplace >= Len(app.config.marketplaces)
       THEN UNCHANGED vars
       ELSE LET at == app.selected_marketplace + 1
                marketplace == app.config.marketplaces[at]
                lock == unlock(app.lock, marketplace.enabled)
                config == [app.config EXCEPT !.marketplaces =
                              SubSeq(@, 1, at - 1)
                              \o SubSeq(@, at + 1, Len(@))]
                removed == [app EXCEPT !.config = config, !.lock = lock]
            IN /\ Writes
               /\ io = "ok" \/ MayFail
               /\ Fault(io # "ok")
               /\ skills_json' = IF io = "save_config" THEN skills_json
                                 ELSE config
               /\ skills_lock' = IF io = "ok" THEN lock ELSE skills_lock
               /\ app' = IF io # "ok"
                         THEN [removed EXCEPT !.state = "Exited"]
                         ELSE [removed EXCEPT
                                  !.selected_marketplace =
                                      adjust_index(@,
                                          Len(config.marketplaces))]
               /\ UNCHANGED <<head, installed, run, last, call, procs>>

\* Enter or space in MarketplaceSkills: the selected name is disabled when
\* the current marketplace enables it and enabled otherwise; the config is
\* saved.
toggle_marketplace_skill(io) ==
    /\ Awaits("MarketplaceSkills")
    /\ IF \/ app.current_marketplace = None
          \/ app.selected_marketplace_skill
                >= Len(app.marketplace_available_skills)
          \/ ~HasSkill(app.config.marketplaces, Val(app.current_marketplace))
       THEN UNCHANGED vars
       ELSE LET skill_name == app.marketplace_available_skills[
                                  app.selected_marketplace_skill + 1]
                at == CHOOSE k \in 1..Len(app.config.marketplaces) :
                         /\ app.config.marketplaces[k].name
                               = Val(app.current_marketplace)
                         /\ \A j \in 1..(k - 1) :
                               app.config.marketplaces[j].name
                                  # Val(app.current_marketplace)
                OtherName(n) == n # skill_name
                was_enabled == Contains(app.config.marketplaces[at].enabled,
                                        skill_name)
                config == [app.config EXCEPT !.marketplaces[at].enabled =
                              IF was_enabled THEN SelectSeq(@, OtherName)
                              ELSE Append(@, skill_name)]
            IN /\ Writes
               /\ io = "ok" \/ MayFail
               /\ Fault(io # "ok")
               /\ skills_json' = IF io = "ok" THEN config ELSE skills_json
               /\ app' = [app EXCEPT
                             !.config = config,
                             !.state = IF io = "ok" THEN @ ELSE "Exited"]
               /\ UNCHANGED <<head, skills_lock, installed, run, last, call,
                              procs>>

\* The skills.json the front-end is started on: the empty one, one with
\* marketplace "a" enabling x and y, and one that declares x and whose
\* marketplace "a" enables x as well.
TuiConfigs ==
    { DefaultConfig,
      [marketplaces |-> << Marketplace("a", <<"o", "/", "a">>, None,
                                       <<"x", "y">>) >>,
       skills |-> <<>>],
      [marketplaces |-> << Marketplace("a", <<"o", "/", "a">>, None,
                                       <<"x">>) >>,
       skills |-> << SkillSpec("x", <<"o", "/", "a">>, None,
                               Some(<<"skills", "/", "x">>)) >>] }

\* The state after App::new in a project directory with nothing installed.
InitTui ==
    /\ head = [r \in Repos |-> 1]
    /\ skills_json \in TuiConfigs
    /\ skills_lock = DefaultLock
    /\ installed = [t \in Targets |-> [n \in Names |-> None]]
    /\ run = Idle
    /\ last = NoLast
    /\ cmds = 0
    /\ faults = 0
    /\ call = NoCall
    /\ procs = NoProcs
    /\ app = new(skills_json, skills_lock)

\* run_app: one key event, or a step of the command it awaits (the
\* commands run in an environment that does not fail).
NextTui ==
    \/ quit
    \/ open("Main", "AddSkill")
    \/ open("Main", "Marketplaces")
    \/ open("Marketplaces", "AddMarketplace")
    \/ esc
    \/ \E c \in {"o", "/", "a", "b", "My-Mkt"} : char(c)
    \/ backspace
    \/ previous_skill
    \/ next_skill
    \/ toggle_skill
    \/ \E io \in {"ok", "save_config", "save_lock"} : remove_selected_skill(io)
    \/ \E net_ok \in BOOLEAN, io \in {"ok", "save_config"} :
          add_skill_from_input(net_ok, io)
    \/ command_asked("install")
    \/ command_asked("update")
    \/ (Asked("install") /\ InstallStart("ok"))
    \/ InstallClone(TRUE)
    \/ InstallCopy(Len(AGENTS))
    \/ InstallMktClone(TRUE)
    \/ InstallMktCopy(0, Len(AGENTS))
    \/ InstallSave(TRUE)
    \/ (Asked("update") /\ UpdateStart(None, "ok"))
    \/ UpdateResolve("ok", TRUE)
    \/ UpdateClone(TRUE)
    \/ UpdateWrite
    \/ UpdateMktResolve("ok", TRUE)
    \/ UpdateMktClone(TRUE)
    \/ UpdateMktWrite
    \/ UpdateSave(TRUE)
    \/ command_returned
    \/ previous_marketplace
    \/ next_marketplace
    \/ enter_marketplace
    \/ \E io \in {"ok", "save_config"} : add_marketplace_from_input(io)
    \/ \E io \in {"ok", "save_config", "save_lock"} :
          remove_selected_marketplace(io)
    \/ previous_marketplace_skill
    \/ next_marketplace_skill
    \/ \E io \in {"ok", "save_config"} : toggle_marketplace_skill(io)

SpecTui == InitTui /\ [][NextTui]_vars

(***************************************************************************)
(* The front-end's add and remove against the commands (tui/app.rs         *)
(* 105-132, 134-177; add.rs 9-77; remove.rs 14-62)                         *)
(***************************************************************************)
\* The skills.json that `add <source>` (no skill name) leaves, run on
\* skills.json = config in an environment that does not fail.
add_run(config, git_source) ==
    LET cloned == clone(git_source, head, TRUE)
    IN IF ~cloned.ok THEN config
       ELSE LET skills == discover(cloned.v.sha, git_source.subpath)
            IN IF ~skills.ok THEN config
               ELSE add_specs(config, select_skills(skills.v, None),
                              git_source)

\* Enter in the add-skill dialog on a source, handled without an error.
AddSkillStep ==
    /\ Awaits("AddSkill")
    /\ app.input # <<>>
    /\ cmds' = cmds + 1
    /\ app'.state = "Main"

\* 'd' in the main list on a selected skill, handled without an error.
RemoveSkillStep ==
    /\ Awaits("Main")
    /\ app.selected_skill < Len(skills_list(app))
    /\ cmds' = cmds + 1
    /\ app'.state = "Main"

SelectedName == skills_list(app)[app.selected_skill + 1].name

\* The front-end's add leaves the Declared store as the add command.
AddSkillAsCommand ==
    AddSkillStep => skills_json' = add_run(skills_json, parse(app.input))

\* The front-end's remove leaves the three stores as the remove command.
RemoveSkillAsCommand ==
    RemoveSkillStep =>
        /\ skills_json' = remove_from_config(skills_json, SelectedName)
        /\ skills_lock' = [skills_lock EXCEPT ![SelectedName] = None]
        /\ installed' = remove_installed(installed, SelectedName, Len(AGENTS))

\* C36: the add-skill and the remove-skill actions of the front-end leave
\* skills.json, skills-lock.json and the install targets in the state the
\* commands add(source) and remove(name) leave them in.
C36_FrontEndActsAsCommands ==
    [][AddSkillAsCommand /\ RemoveSkillAsCommand]_vars

(***************************************************************************)
(* The selection indexes of the front-end (tui/app.rs 86-98, 105-132,      *)
(* 204-226, 261-322)                                                       *)
(***************************************************************************)
\* The index is 0 or lies within a list of length len.
InRange(selected, len) == selected = 0 \/ selected < len

\* The front-end is running.
Running == app.state \notin {"Off", "Exited"}

SkillIndexInRange ==
    Running => InRange(app.selected_skill, Len(skills_list(app)))

MarketplaceIndexInRange ==
    Running => InRange(app.selected_marketplace, Len(app.config.marketplaces))

MarketplaceSkillIndexInRange ==
    Running => InRange(app.selected_marketplace_skill,
                       Len(app.marketplace_available_skills))

\* C37: while the front-end runs, after any sequence of key events, each of
\* selected_skill, selected_marketplace and selected_marketplace_skill is 0
\* or less than the length of the list it indexes (skills_list(),
\* config.marketplaces, marketplace_available_skills).
C37_SelectionsInRange ==
    /\ SkillIndexInRange
    /\ MarketplaceIndexInRange
    /\ MarketplaceSkillIndexInRange

=============================================================================
